---- MODULE Spec2Model ----
(***************************************************************************)
(* SmartRetail inventory optimizer (src/agents/inventory_optimizer.py).    *)
(*                                                                         *)
(* Numbers.  Prices, costs, stock and demand are integers.  Money amounts  *)
(* (profit, reward, Q-values) are kept as integers in units of 1/MoneyUnit *)
(* of a currency unit; with MoneyUnit = 365 * 50 every daily profit of the *)
(* simulation is exact (holding cost is stock * cost * 0.02 / 365 and the  *)
(* stockout cost is missed * price * 0.10).  The two float products of the *)
(* Q-learning update are rounded down to that unit.  Means and standard    *)
(* deviations are kept as exact rationals (numerator, denominator, or the  *)
(* square under the root).                                                 *)
(***************************************************************************)
EXTENDS Integers, Sequences, FiniteSets, TLC

VARIABLES
    upstream,   \* the rows the optimizer reads: pricing, suppliers, sales_history, inventory
    q_values,   \* InventoryOptimizer.q_values: state key -> [order, wait]
    pc,         \* position of the simulate_policy call: "idle", "loop", "final"
    sim,        \* the locals of the running simulate_policy call
    result,     \* what the last simulate_policy call returned
    rec,        \* what the caller's calculate_optimal_order_quantity call returned, while
                \* it is the last call made
    last,       \* what the last simulated day read and decided (observation of the step)
    runs,       \* simulate_policy calls started, the days they asked for, and whether
                \* the last call met an exception (observation)
    upd,        \* the arguments and the table of the last direct update_policy call
    conc,       \* two threads inside update_policy on the shared table
    replay,     \* the inputs and the DayRecords of a first run, kept to run the same
                \* simulation a second time on a new optimizer (observation)
    probe,      \* the arguments and the results of two state_to_key calls
    restock,    \* the restock_requests and inventory rows and the running
                \* handle_restock_requests calls
    dbconn      \* a caller of db_connection: its attempts and connections

vars == <<upstream, q_values, pc, sim, result, rec, last, runs, upd, conc, replay, probe,
          restock, dbconn>>

----------------------------------------------------------------------------
(* Bounds of the model: MaxRuns simulate_policy calls on one optimizer,    *)
(* asking for MaxDays simulated days in total; MaxUpdates direct           *)
(* update_policy calls.                                                    *)

MaxDays == 3
MaxRuns == 2
MaxUpdates == 2
MaxRequests == 2     \* restock requests inserted

(* Program constants (InventoryOptimizer.__init__) *)

ordering_cost == 15
holding_cost_rate_pct == 2
stockout_penalty_pct == 10
learning_rate_pct == 10
discount_factor_pct == 90
default_lead_time == 7
default_sim_stock == 50
default_mean_demand == 10
override_margin == 10

MoneyUnit == 365 * 50

----------------------------------------------------------------------------
(* Arithmetic helpers *)

Max(a, b) == IF a >= b THEN a ELSE b
Min(a, b) == IF a <= b THEN a ELSE b

RECURSIVE SumSeq(_)
SumSeq(s) == IF s = << >> THEN 0 ELSE Head(s) + SumSeq(Tail(s))

RECURSIVE SumSqSeq(_)
SumSqSeq(s) == IF s = << >> THEN 0 ELSE Head(s) * Head(s) + SumSqSeq(Tail(s))

\* floor(sqrt(a)) by bisection on [lo, hi), lo*lo <= a < hi*hi
RECURSIVE ISqrtIn(_, _, _)
ISqrtIn(a, lo, hi) ==
    IF hi - lo <= 1 THEN lo
    ELSE LET mid == (lo + hi) \div 2
         IN  IF mid * mid <= a THEN ISqrtIn(a, mid, hi) ELSE ISqrtIn(a, lo, mid)

ISqrt(a) == ISqrtIn(a, 0, 46340)

\* round(p / q) for q > 0, ties to the even integer (Python's round)
RoundDiv(p, q) ==
    LET f == p \div q
        r == p - f * q
    IN  IF 2 * r < q THEN f
        ELSE IF 2 * r > q THEN f + 1
        ELSE IF f % 2 = 0 THEN f ELSE f + 1

\* round(sqrt(p / q)) for p >= 0, q > 0, ties to the even integer
RoundSqrt(p, q) ==
    LET m == ISqrt((4 * p) \div q)   \* floor(2 * sqrt(p/q))
        k == m \div 2
    IN  IF m % 2 = 0 THEN k
        ELSE IF 4 * p = m * m * q /\ k % 2 = 0 THEN k
        ELSE k + 1

----------------------------------------------------------------------------
(* State Classifier *)

\* variant: the bucket bounds are inclusive (stock_level <= 5, <= 20, ...)
state_to_key_InclusiveBounds(stock_level, demand_level, price_ratio) ==
    LET stock_state ==
            IF stock_level <= 5 THEN "very_low"
            ELSE IF stock_level <= 20 THEN "low"
            ELSE IF stock_level <= 50 THEN "medium_low"
            ELSE IF stock_level <= 100 THEN "medium"
            ELSE IF stock_level <= 200 THEN "medium_high"
            ELSE "high"
    IN  stock_state \o "_" \o demand_level \o "_" \o price_ratio

state_to_key(stock_level, demand_level, price_ratio) ==
    LET stock_state ==
            IF stock_level < 5 THEN "very_low"
            ELSE IF stock_level < 20 THEN "low"
            ELSE IF stock_level < 50 THEN "medium_low"
            ELSE IF stock_level < 100 THEN "medium"
            ELSE IF stock_level < 200 THEN "medium_high"
            ELSE "high"
    IN  stock_state \o "_" \o demand_level \o "_" \o price_ratio

----------------------------------------------------------------------------
(* Tabular policy *)

EmptyTable == [k \in {} |-> [order |-> 0, wait |-> 0]]

ZeroEntry == [order |-> 0, wait |-> 0]

\* self.q_values[key] = {"order": 0.0, "wait": 0.0} when the key is absent
LazyInsert(q, key) ==
    IF key \in DOMAIN q THEN q
    ELSE [k \in DOMAIN q \cup {key} |-> IF k = key THEN ZeroEntry ELSE q[k]]

\* variant: the rate of the constructor is used whatever self.learning_rate holds
TDUpdateWith_FixedRate(rate_pct, current_q, reward, max_next_q) ==
    current_q
      + (learning_rate_pct
           * (reward + (discount_factor_pct * max_next_q) \div 100 - current_q)) \div 100

\* line 182, for a value rate_pct / 100 of the attribute self.learning_rate:
\* current_q + learning_rate * (reward + discount_factor * max_next_q - current_q)
TDUpdateWith(rate_pct, current_q, reward, max_next_q) ==
    current_q
      + (rate_pct
           * (reward + (discount_factor_pct * max_next_q) \div 100 - current_q)) \div 100

\* line 182 with the learning rate __init__ sets (line 13)
TDUpdate(current_q, reward, max_next_q) ==
    TDUpdateWith(learning_rate_pct, current_q, reward, max_next_q)

\* variant: the smaller of the two next-state values
MaxNextQ_Min(entry) == Min(entry.order, entry.wait)

MaxNextQ(entry) == Max(entry.order, entry.wait)

\* lines 168-184, for a value rate_pct / 100 of the attribute self.learning_rate
update_policy_with(rate_pct, q, state_key, action, reward, next_state_key) ==
    LET q1 == LazyInsert(q, state_key)
        q2 == LazyInsert(q1, next_state_key)
        current_q == q2[state_key][action]
        max_next_q == MaxNextQ(q2[next_state_key])
        updated_q == TDUpdateWith(rate_pct, current_q, reward, max_next_q)
    IN  [q2 EXCEPT ![state_key][action] = updated_q]

\* variant: the next state is not inserted; its values are read with a default of 0
update_policy_SkipsNext(q, state_key, action, reward, next_state_key) ==
    LET q1 == LazyInsert(q, state_key)
        current_q == q1[state_key][action]
        max_next_q == IF next_state_key \in DOMAIN q1 THEN MaxNextQ(q1[next_state_key]) ELSE 0
        updated_q == TDUpdate(current_q, reward, max_next_q)
    IN  [q1 EXCEPT ![state_key][action] = updated_q]

\* lines 168-184 with the learning rate __init__ sets (line 13)
update_policy(q, state_key, action, reward, next_state_key) ==
    update_policy_with(learning_rate_pct, q, state_key, action, reward, next_state_key)

----------------------------------------------------------------------------
(* Upstream data, as the queries of the optimizer see it.                  *)
(*   pricing, supplier : a pricing row / at least one supplier row exists  *)
(*   price, cost       : current_price, cheapest supplier cost             *)
(*   sales             : units_sold of the (product, store) rows, newest   *)
(*                       first; the first `recent` of them are dated       *)
(*                       within the last 30 days                           *)
(*   hasStock, stock   : the inventory row                                 *)
(*   hasLead, lead     : MIN(lead_time) over the suppliers (NULL if none)  *)

RecentSales(up) == SubSeq(up.sales, 1, up.recent)

\* variant: an outer join, a pricing row alone is enough
PriceCostRow_OuterJoin(up) == up.pricing

\* SELECT p.current_price, s.cost FROM pricing p JOIN suppliers s ...
PriceCostRow(up) == up.pricing /\ up.supplier

LeadTime(up) == IF up.hasLead THEN up.lead ELSE default_lead_time

----------------------------------------------------------------------------
(* Classical Order-Quantity Calculator with the policy blend               *)

Sentinel(msg) ==
    [kind |-> "sentinel", order_quantity |-> 0, reorder_point |-> 0,
     economic_order_quantity |-> 0, safety_stock |-> 0, lead_time |-> 0,
     current_stock |-> 0, should_order |-> FALSE, state_key |-> "",
     avg_num |-> 0, avg_den |-> 1, message |-> msg]

Raised(msg) == [Sentinel(msg) EXCEPT !.kind = "raised"]

\* avg_demand = max(0.1, AVG(units_sold)) as <<numerator, denominator>>
AvgDemand(w) ==
    IF 10 * SumSeq(w) < Len(w) THEN <<1, 10>> ELSE <<SumSeq(w), Len(w)>>

\* n^2 * np.std(w)^2 (population variance times n^2)
VarTimesN2(w) == Len(w) * SumSqSeq(w) - SumSeq(w) * SumSeq(w)

\* holding_cost = max(0.001, cost * holding_cost_rate) as <<numerator, denominator>>
HoldingCost(cost) ==
    IF 1000 * cost * holding_cost_rate_pct >= 100
    THEN <<cost * holding_cost_rate_pct, 100>>
    ELSE <<1, 1000>>

\* annual_demand = avg_demand * 365 as <<numerator, denominator>>
AnnualDemand(avg) == <<365 * avg[1], avg[2]>>

\* variant: the factor 2 of the square-root formula is left out
EOQ_OmitsTwo(avg, hold) ==
    LET annual_demand == AnnualDemand(avg)
    IN  Max(1, RoundSqrt(ordering_cost * annual_demand[1] * hold[2],
                         annual_demand[2] * hold[1]))

\* eoq = max(1, round(sqrt(2 * annual_demand * ordering_cost / holding_cost)))
EOQ(avg, hold) ==
    LET annual_demand == AnnualDemand(avg)
    IN  Max(1, RoundSqrt(2 * ordering_cost * annual_demand[1] * hold[2],
                         annual_demand[2] * hold[1]))

\* max(1, avg_demand * 0.3), squared, as <<numerator, denominator>>
FallbackStdSq(avg) ==
    IF 3 * avg[1] > 10 * avg[2]
    THEN <<9 * avg[1] * avg[1], 100 * avg[2] * avg[2]>>
    ELSE <<1, 1>>

\* line 64: std_demand = np.std(sales_data) if sales_data else max(1, avg_demand * 0.3),
\* squared, as <<numerator, denominator>>
StdDemandSq(w) ==
    IF w = << >> THEN FallbackStdSq(AvgDemand(w))
    ELSE <<VarTimesN2(w), Len(w) * Len(w)>>

\* safety_stock = max(0, round(1.96 * std_demand * sqrt(lead_time))), 1.96^2 = 2401/625
SafetyStockOf(std_sq, lead_time) ==
    Max(0, RoundSqrt(2401 * std_sq[1] * lead_time, 625 * std_sq[2]))

SafetyStock(w, lead_time) == SafetyStockOf(StdDemandSq(w), lead_time)

\* variant: the reorder point covers the lead-time demand only
ReorderPoint_DemandOnly(avg, lead_time, safety_stock) ==
    Max(1, RoundDiv(avg[1] * lead_time, avg[2]))

\* reorder_point = max(1, round(avg_demand * lead_time + safety_stock))
ReorderPoint(avg, lead_time, safety_stock) ==
    Max(1, RoundDiv(avg[1] * lead_time + safety_stock * avg[2], avg[2]))

\* std_demand / avg_demand > 0.5 -> high, < 0.2 -> low  (avg_demand > 0 always)
CalcDemandLevel(w, avg) ==
    LET lhs == VarTimesN2(w) * avg[2] * avg[2]        \* (std/avg)^2 = lhs / rhs
        rhs == Len(w) * Len(w) * avg[1] * avg[1]
    IN  IF 4 * lhs > rhs THEN "high"
        ELSE IF 25 * lhs < rhs THEN "low"
        ELSE "medium"

CalcPriceRatio(price, cost) ==
    IF cost > 0
    THEN IF price > 2 * cost THEN "high"
         ELSE IF 2 * price < 3 * cost THEN "low"
         ELSE "medium"
    ELSE "medium"

\* variant: the table decides on any difference, as in the simulation loop
BlendDecision_NoMargin(q, state_key, draw, current_stock, reorder_point) ==
    IF state_key \in DOMAIN q /\ draw
    THEN q[state_key].order > q[state_key].wait
    ELSE current_stock <= reorder_point

\* lines 116-127: the classical trigger, overridden by the table beyond the margin
BlendDecision(q, state_key, draw, current_stock, reorder_point) ==
    LET classical == current_stock <= reorder_point
    IN  IF state_key \in DOMAIN q /\ draw
        THEN LET q_order == q[state_key].order
                 q_wait == q[state_key].wait
             IN  IF q_order > q_wait + override_margin * MoneyUnit THEN TRUE
                 ELSE IF q_wait > q_order + override_margin * MoneyUnit THEN FALSE
                 ELSE classical
        ELSE classical

\* lines 130-133
OrderQuantity(should_order, eoq, current_stock, reorder_point) ==
    IF should_order THEN Max(0, eoq - current_stock + reorder_point) ELSE 0

\* the body of the try block; draw = (np.random.random() > exploration_rate)
CalcBody(up, q, draw) ==
    IF ~PriceCostRow(up) THEN Sentinel("No pricing or supplier data")
    ELSE IF up.recent = 0 THEN Sentinel("Insufficient sales history")
    ELSE
      LET w == RecentSales(up)
          avg == AvgDemand(w)
          current_stock == IF up.hasStock THEN up.stock ELSE 0
          lead_time == LeadTime(up)
          eoq == EOQ(avg, HoldingCost(up.cost))
          safety_stock == SafetyStock(w, lead_time)
          reorder_point == ReorderPoint(avg, lead_time, safety_stock)
          state_key == state_to_key(current_stock, CalcDemandLevel(w, avg),
                                    CalcPriceRatio(up.price, up.cost))
          should_order == BlendDecision(q, state_key, draw, current_stock, reorder_point)
      IN  [kind |-> "ok",
           order_quantity |-> OrderQuantity(should_order, eoq, current_stock, reorder_point),
           reorder_point |-> reorder_point,
           economic_order_quantity |-> eoq,
           safety_stock |-> safety_stock,
           lead_time |-> lead_time,
           current_stock |-> current_stock,
           should_order |-> should_order,
           state_key |-> state_key,
           avg_num |-> avg[1], avg_den |-> avg[2],
           message |-> ""]

\* variant: no handler, the exception leaves the method
CalcExcept_Reraise(outcome) == outcome

\* except Exception as e: return the sentinel (lines 146-148)
CalcExcept(outcome) ==
    IF outcome.kind = "raised" THEN Sentinel("Error") ELSE outcome

\* fault: an exception raised inside the try block (a failing query)
calculate_optimal_order_quantity(up, q, draw, fault) ==
    CalcExcept(IF fault THEN Raised("Error") ELSE CalcBody(up, q, draw))

\* dict.get(key, 0) on a result
GetReorderPoint(res) == res.reorder_point
GetEOQ(res) == IF res.kind = "ok" THEN res.economic_order_quantity ELSE 0

----------------------------------------------------------------------------
(* Daily Simulation Loop: simulate_policy                                  *)

\* service_level is kept as the fraction <<numerator, denominator>>
NoResult ==
    [kind |-> "none", message |-> "", total_profit |-> 0, revenue |-> 0,
     stockout_days |-> 0, service_level |-> <<0, 1>>, holding_cost |-> 0,
     ordering_cost |-> 0, final_stock |-> 0, daily_results |-> << >>,
     inventory_turnover |-> <<0, 1>>]

ErrorResult(msg) == [NoResult EXCEPT !.kind = "error", !.message = msg]

SimRaised == [NoResult EXCEPT !.kind = "raised"]

\* variant: no handler, the exception leaves the method
SimExcept_Reraise(outcome) == outcome

\* except Exception as e: return {"error": ...} (lines 364-366)
SimExcept(outcome) ==
    IF outcome.kind = "raised" THEN ErrorResult("Simulation error") ELSE outcome

NoSim ==
    [price |-> 0, cost |-> 0, mean_num |-> 0, mean_den |-> 1, current_stock |-> 0,
     lead_time |-> 0, days |-> 0, daily_demand |-> << >>, day |-> 0, stock |-> 0,
     days_to_delivery |-> 0, pending_delivery |-> 0, total_profit |-> 0,
     stockout_days |-> 0, holding_cost_total |-> 0, ordering_cost_total |-> 0,
     revenue_total |-> 0, daily_results |-> << >>, calls |-> 0,
     std_num |-> 0, std_den |-> 1]

\* SELECT units_sold ... ORDER BY date DESC LIMIT 30
DemandHistory(up) == SubSeq(up.sales, 1, Min(30, Len(up.sales)))

\* variant: no default, the mean of an empty history is 0
MeanDemand_ZeroDefault(h) ==
    IF h = << >> THEN <<0, 1>> ELSE <<SumSeq(h), Len(h)>>

\* mean_demand = 10 without history, np.mean(demand_history) otherwise
MeanDemand(h) ==
    IF h = << >> THEN <<default_mean_demand, 1>> ELSE <<SumSeq(h), Len(h)>>

\* std_demand = 3 without history, max(1, np.std(demand_history)) otherwise,
\* squared, as <<numerator, denominator>>
SimStdDemandSq(h) ==
    IF h = << >> THEN <<9, 1>>
    ELSE IF VarTimesN2(h) > Len(h) * Len(h) THEN <<VarTimesN2(h), Len(h) * Len(h)>>
    ELSE <<1, 1>>

\* the synthesized samples: np.maximum(1, normal(...)).astype(int)
SynthDemand == {1, 12}

\* lines 237-252: the locals at loop entry; synth is the synthesized sequence
SimLocals(up, days, synth) ==
    LET h == DemandHistory(up)
        mean == MeanDemand(h)
        std_sq == SimStdDemandSq(h)
        current_stock == IF up.hasStock THEN up.stock ELSE default_sim_stock
    IN  [NoSim EXCEPT
           !.price = up.price, !.cost = up.cost,
           !.mean_num = mean[1], !.mean_den = mean[2],
           !.std_num = std_sq[1], !.std_den = std_sq[2],
           !.current_stock = current_stock, !.lead_time = LeadTime(up),
           !.days = days,
           !.daily_demand = IF Len(h) >= days THEN SubSeq(h, 1, days) ELSE synth,
           !.stock = current_stock]

\* variant: the arriving quantity is cleared without being added to stock
DeliveryStep_DropsArrival(stock, days_to_delivery, pending_delivery) ==
    IF days_to_delivery > 0
    THEN IF days_to_delivery - 1 = 0
         THEN [stock |-> stock, days_to_delivery |-> 0,
               pending_delivery |-> 0, delivered |-> pending_delivery]
         ELSE [stock |-> stock, days_to_delivery |-> days_to_delivery - 1,
               pending_delivery |-> pending_delivery, delivered |-> 0]
    ELSE [stock |-> stock, days_to_delivery |-> days_to_delivery,
          pending_delivery |-> pending_delivery, delivered |-> 0]

\* variant: the pending quantity is added on the first day after the order,
\* without waiting for the countdown to reach 0
DeliveryStep_FirstDay(stock, days_to_delivery, pending_delivery) ==
    IF days_to_delivery > 0
    THEN [stock |-> stock + pending_delivery, days_to_delivery |-> 0,
          pending_delivery |-> 0, delivered |-> pending_delivery]
    ELSE [stock |-> stock, days_to_delivery |-> days_to_delivery,
          pending_delivery |-> pending_delivery, delivered |-> 0]

\* lines 260-264
DeliveryStep(stock, days_to_delivery, pending_delivery) ==
    IF days_to_delivery > 0
    THEN IF days_to_delivery - 1 = 0
         THEN [stock |-> stock + pending_delivery, days_to_delivery |-> 0,
               pending_delivery |-> 0, delivered |-> pending_delivery]
         ELSE [stock |-> stock, days_to_delivery |-> days_to_delivery - 1,
               pending_delivery |-> pending_delivery, delivered |-> 0]
    ELSE [stock |-> stock, days_to_delivery |-> days_to_delivery,
          pending_delivery |-> pending_delivery, delivered |-> 0]

\* demand > mean * 1.2 -> high, demand < mean * 0.8 -> low
SimDemandLevel(demand, mean_num, mean_den) ==
    IF 10 * demand * mean_den > 12 * mean_num THEN "high"
    ELSE IF 10 * demand * mean_den < 8 * mean_num THEN "low"
    ELSE "medium"

\* price > cost * 2 -> high, price < cost * 1.5 -> low
SimPriceRatio(price, cost) ==
    IF price > 2 * cost THEN "high"
    ELSE IF 2 * price < 3 * cost THEN "low"
    ELSE "medium"

\* line 277
ClassicalTrigger(stock, eoq_result, days_to_delivery) ==
    stock <= GetReorderPoint(eoq_result) /\ days_to_delivery = 0

\* variant: a state key without an entry is read as two values of 0, and the
\* table's answer "order is not better" is taken
SimDecision_NoEntryWaits(q, state_key, draw, should_order_eoq) ==
    IF draw
    THEN IF state_key \in DOMAIN q THEN q[state_key].order > q[state_key].wait ELSE FALSE
    ELSE should_order_eoq

\* lines 280-287; draw = (np.random.random() > exploration_rate)
SimDecision(q, state_key, draw, should_order_eoq) ==
    IF state_key \in DOMAIN q /\ draw
    THEN q[state_key].order > q[state_key].wait
    ELSE should_order_eoq

\* variant: the pending-delivery check of line 290 left out
PlacesOrder_Overlapping(should_order, days_to_delivery) == should_order

\* line 290
PlacesOrder(should_order, days_to_delivery) ==
    should_order /\ days_to_delivery = 0

\* line 291
SimOrderQuantity(eoq_result) == GetEOQ(eoq_result)

\* variant: the whole demand is sold, whatever is on the shelf
Sold_AllDemand(stock, demand) == demand

\* lines 298-299
Sold(stock, demand) == Min(stock, demand)

\* variant: the test is missed >= 0
StockoutDay_AnyDay(missed) == IF missed >= 0 THEN 1 ELSE 0

\* lines 318-319: if missed > 0: stockout_days += 1
StockoutDay(missed) == IF missed > 0 THEN 1 ELSE 0

\* variant: the ordering cost only goes to the running total, not to the profit
DayProfit_OrderingCostFree(sold, missed, stock_after, price, cost, ordered) ==
    LET revenue == sold * price * MoneyUnit
        cogs == sold * cost * MoneyUnit
        holding_cost == (stock_after * cost * holding_cost_rate_pct * MoneyUnit) \div (100 * 365)
        stockout_cost == (missed * price * stockout_penalty_pct * MoneyUnit) \div 100
    IN  revenue - cogs - holding_cost - stockout_cost

\* lines 305-312, in units of 1/MoneyUnit
DayProfit(sold, missed, stock_after, price, cost, ordered) ==
    LET revenue == sold * price * MoneyUnit
        cogs == sold * cost * MoneyUnit
        holding_cost == (stock_after * cost * holding_cost_rate_pct * MoneyUnit) \div (100 * 365)
        stockout_cost == (missed * price * stockout_penalty_pct * MoneyUnit) \div 100
    IN  revenue - cogs - holding_cost - stockout_cost
          - (IF ordered THEN ordering_cost * MoneyUnit ELSE 0)

HoldingCostOfDay(stock_after, cost) ==
    (stock_after * cost * holding_cost_rate_pct * MoneyUnit) \div (100 * 365)

\* variant: the table learns only from the days on which an order was placed
LearnFromDay_OrderDaysOnly(q, state_key, action, day_profit, next_state_key) ==
    IF action = "order"
    THEN update_policy(q, state_key, action, day_profit, next_state_key)
    ELSE q

\* lines 341-344: reward = day_profit; self.update_policy(state_key, action,
\* reward, next_state_key)
LearnFromDay(q, state_key, action, day_profit, next_state_key) ==
    update_policy(q, state_key, action, day_profit, next_state_key)

\* variant: the next state is classified by the day's own demand
NextDemand_Today(daily_demand, day, days) == daily_demand[day + 1]

\* line 336: daily_demand[min(day + 1, days - 1)], day counted from 0; the
\* sequence is indexed from 1 here
NextDemand(daily_demand, day, days) == daily_demand[Min(day + 1, days - 1) + 1]

\* One iteration of the loop (lines 255-344) on the locals s and the table q,
\* given the result of the day's calculate_optimal_order_quantity call.
\* draw: the exploration draw of the loop.
DayStepWith(q, s, draw, eoq_result) ==
    LET demand == s.daily_demand[s.day + 1]
        d == DeliveryStep(s.stock, s.days_to_delivery, s.pending_delivery)
        demand_level == SimDemandLevel(demand, s.mean_num, s.mean_den)
        price_ratio == SimPriceRatio(s.price, s.cost)
        state_key == state_to_key(d.stock, demand_level, price_ratio)
        should_order_eoq == ClassicalTrigger(d.stock, eoq_result, d.days_to_delivery)
        should_order == SimDecision(q, state_key, draw, should_order_eoq)
        orders == PlacesOrder(should_order, d.days_to_delivery)
        order_quantity == IF orders THEN SimOrderQuantity(eoq_result) ELSE 0
        action == IF orders THEN "order" ELSE "wait"
        sold == Sold(d.stock, demand)
        missed == demand - sold
        stock_after == d.stock - sold
        day_profit == DayProfit(sold, missed, stock_after, s.price, s.cost, orders)
        next_demand == NextDemand(s.daily_demand, s.day, s.days)
        next_state_key ==
            state_to_key(stock_after,
                         SimDemandLevel(next_demand, s.mean_num, s.mean_den), price_ratio)
        record ==
            [day |-> s.day + 1, demand |-> demand, sold |-> sold, missed |-> missed,
             stock |-> stock_after, ordered |-> IF orders THEN order_quantity ELSE 0,
             revenue |-> sold * s.price * MoneyUnit, profit |-> day_profit,
             action |-> action, state |-> state_key]
    IN  [sim |->
           [s EXCEPT
              !.day = s.day + 1,
              !.stock = stock_after,
              !.days_to_delivery = IF orders THEN s.lead_time ELSE d.days_to_delivery,
              !.pending_delivery = IF orders THEN order_quantity ELSE d.pending_delivery,
              !.total_profit = s.total_profit + day_profit,
              !.stockout_days = s.stockout_days + StockoutDay(missed),
              !.holding_cost_total = s.holding_cost_total + HoldingCostOfDay(stock_after, s.cost),
              !.ordering_cost_total =
                  s.ordering_cost_total + (IF orders THEN ordering_cost * MoneyUnit ELSE 0),
              !.revenue_total = s.revenue_total + sold * s.price * MoneyUnit,
              !.daily_results = Append(s.daily_results, record),
              !.calls = s.calls + 1],
         q |-> LearnFromDay(q, state_key, action, day_profit, next_state_key),
         obs |->
           [day |-> s.day + 1, stock_before |-> s.stock, delivered |-> d.delivered,
            dtd_before |-> s.days_to_delivery, pending_before |-> s.pending_delivery,
            stock_at_decision |-> d.stock,
            dtd_at_decision |-> d.days_to_delivery,
            pending_at_decision |-> d.pending_delivery,
            state_key |-> state_key, has_entry |-> state_key \in DOMAIN q,
            q_order |-> IF state_key \in DOMAIN q THEN q[state_key].order ELSE 0,
            q_wait |-> IF state_key \in DOMAIN q THEN q[state_key].wait ELSE 0,
            draw |-> draw, calc_kind |-> eoq_result.kind,
            reorder_point |-> GetReorderPoint(eoq_result), eoq |-> GetEOQ(eoq_result),
            should_order_eoq |-> should_order_eoq, should_order |-> should_order,
            action |-> action, order_quantity |-> order_quantity,
            demand |-> demand, sold |-> sold, missed |-> missed,
            reward |-> day_profit, next_state_key |-> next_state_key,
            q_before |-> q]]

\* variant: the day's calculator call leaves its state key in the table
DayStep_CalcInserts(up, q, s, draw, cdraw, cfault) ==
    LET eoq_result == calculate_optimal_order_quantity(up, q, cdraw, cfault)
    IN  DayStepWith(IF eoq_result.kind = "ok" THEN LazyInsert(q, eoq_result.state_key) ELSE q,
                    s, draw, eoq_result)

\* line 276 inside the iteration: cdraw, cfault are the draw and a failing
\* query inside the day's calculate_optimal_order_quantity call
DayStep(up, q, s, draw, cdraw, cfault) ==
    DayStepWith(q, s, draw, calculate_optimal_order_quantity(up, q, cdraw, cfault))

\* line 347: service_level = 1 - (stockout_days / days) if days > 0 else 0
ServiceLevel(stockout_days, days) ==
    IF days > 0 THEN <<days - stockout_days, days>> ELSE <<0, 1>>

\* variant: an average inventory of 0 is not replaced by 1, the turnover is 0
InventoryTurnover_NoFloor(revenue_total, cost, current_stock, stock) ==
    IF cost > 0 /\ current_stock + stock > 0
    THEN <<2 * revenue_total, MoneyUnit * cost * (current_stock + stock)>>
    ELSE <<0, 1>>

\* lines 350-351 as <<numerator, denominator>>, revenue_total in money units:
\* avg_inventory = (current_stock + stock) / 2 if current_stock + stock > 0 else 1
\* inventory_turnover = revenue_total / (cost * avg_inventory)
\*                      if cost > 0 and avg_inventory > 0 else 0
InventoryTurnover(revenue_total, cost, current_stock, stock) ==
    IF cost > 0
    THEN IF current_stock + stock > 0
         THEN <<2 * revenue_total, MoneyUnit * cost * (current_stock + stock)>>
         ELSE <<revenue_total, MoneyUnit * cost>>
    ELSE <<0, 1>>

\* lines 347-363
SimResult(s) ==
    [NoResult EXCEPT
       !.kind = "ok", !.total_profit = s.total_profit, !.revenue = s.revenue_total,
       !.stockout_days = s.stockout_days,
       !.service_level = ServiceLevel(s.stockout_days, s.days),
       !.holding_cost = s.holding_cost_total,
       !.ordering_cost = s.ordering_cost_total, !.final_stock = s.stock,
       !.daily_results = s.daily_results,
       !.inventory_turnover =
           InventoryTurnover(s.revenue_total, s.cost, s.current_stock, s.stock)]

----------------------------------------------------------------------------
(* Initial states: the upstream rows                                       *)

UpstreamRow(pricing, supplier, pc_, sales, recent, hasStock, stock, hasLead, lead) ==
    [pricing |-> pricing, supplier |-> supplier, price |-> pc_[1], cost |-> pc_[2],
     sales |-> sales, recent |-> recent, hasStock |-> hasStock, stock |-> stock,
     hasLead |-> hasLead, lead |-> lead]

\* <<hasStock, stock>> and <<hasLead, lead>> choices
StockRows == {<<FALSE, 0>>, <<TRUE, 0>>, <<TRUE, 15>>}
LeadRows == {<<FALSE, 0>>, <<TRUE, 0>>, <<TRUE, 1>>, <<TRUE, 2>>}
SalesRows == {<< >>, <<10, 10, 10>>, <<4, 10>>}
PriceCosts == {<<12, 5>>}

\* complete data: every combination; the window holds all rows or none
CompleteUpstreams ==
    { UpstreamRow(TRUE, TRUE, p, sl, r, st[1], st[2], ld[1], ld[2]) :
        p \in PriceCosts, sl \in SalesRows, r \in {0, 1}, st \in StockRows, ld \in LeadRows }

\* missing pricing row, or no supplier row (then no lead time either)
MissingUpstreams ==
    { UpstreamRow(FALSE, TRUE, <<0, 5>>, <<10, 10, 10>>, 3, TRUE, 15, TRUE, 1),
      UpstreamRow(TRUE, FALSE, <<12, 0>>, <<10, 10, 10>>, 3, TRUE, 15, FALSE, 0) }

Upstreams ==
    { [u EXCEPT !.recent = IF u.recent = 0 THEN 0 ELSE Len(u.sales)] : u \in CompleteUpstreams }
      \cup MissingUpstreams

NoRec ==
    [res |-> Sentinel("none"), draw |-> FALSE, fault |-> FALSE, has_entry |-> FALSE,
     calls |-> 0]

NoObs == [day |-> 0]

NoUpd == [calls |-> 0]

Threads == {1, 2}

NoThread ==
    [pc |-> "start", state_key |-> "", action |-> "", reward |-> 0,
     next_state_key |-> "", current_q |-> 0, max_next_q |-> 0]

NoConc == [q0 |-> EmptyTable, thr |-> [t \in Threads |-> NoThread]]

NoProbe == [calls |-> 0]

\* no restock request, no handle_restock_requests call
NoRestock == [requests |-> << >>]

\* db_connection not entered
NoDbConn == [attempt |-> 0]

NoReplay ==
    [phase |-> "off", inputs |-> << >>, first |-> NoResult, days |-> 0,
     daily_demand |-> << >>]

InitOptimizer ==
    /\ q_values = EmptyTable
    /\ pc = "idle"
    /\ sim = NoSim
    /\ result = NoResult
    /\ rec = NoRec
    /\ last = NoObs
    /\ runs = [started |-> 0, days |-> 0, asked |-> 0, faulted |-> FALSE]
    /\ upd = NoUpd
    /\ conc = NoConc
    /\ replay = NoReplay
    /\ probe = NoProbe
    /\ restock = NoRestock
    /\ dbconn = NoDbConn

Init ==
    /\ upstream \in Upstreams
    /\ InitOptimizer

----------------------------------------------------------------------------
(* simulate_policy, one action per step of the call                        *)

\* variant: a run starts by emptying the table
SimStart_ResetsTable(days, synth, fault) ==
    /\ pc = "idle"
    /\ runs.started < MaxRuns
    /\ runs.days + days <= MaxDays
    /\ runs' = [started |-> runs.started + 1, days |-> runs.days + days, asked |-> days,
                faulted |-> fault]
    /\ last' = NoObs
    /\ IF fault
       THEN /\ result' = SimExcept(SimRaised)
            /\ UNCHANGED <<restock, dbconn, probe, pc, sim>>
       ELSE IF ~PriceCostRow(upstream)
       THEN /\ result' = ErrorResult("No pricing or supplier data available")
            /\ UNCHANGED <<restock, dbconn, probe, pc, sim>>
       ELSE /\ pc' = "loop"
            /\ sim' = SimLocals(upstream, days, synth)
            /\ result' = NoResult
    /\ rec' = NoRec
    /\ q_values' = EmptyTable
    /\ UNCHANGED <<restock, dbconn, probe, replay, upstream, upd, conc>>

\* lines 188-252: data retrieval and the locals; fault: an exception in it
SimStart(days, synth, fault) ==
    /\ pc = "idle"
    /\ runs.started < MaxRuns
    /\ runs.days + days <= MaxDays
    /\ runs' = [started |-> runs.started + 1, days |-> runs.days + days, asked |-> days,
                faulted |-> fault]
    /\ last' = NoObs
    /\ IF fault
       THEN /\ result' = SimExcept(SimRaised)
            /\ UNCHANGED <<restock, dbconn, probe, pc, sim>>
       ELSE IF ~PriceCostRow(upstream)
       THEN /\ result' = ErrorResult("No pricing or supplier data available")
            /\ UNCHANGED <<restock, dbconn, probe, pc, sim>>
       ELSE /\ pc' = "loop"
            /\ sim' = SimLocals(upstream, days, synth)
            /\ result' = NoResult
    /\ rec' = NoRec
    /\ UNCHANGED <<restock, dbconn, probe, replay, upstream, q_values, upd, conc>>

\* variant: the stock the day ends with is written to the inventory row
SimDay_WritesStock(draw, cdraw, cfault, fault) ==
    /\ pc = "loop"
    /\ sim.day < sim.days
    /\ IF fault
       THEN /\ result' = SimExcept(SimRaised)
            /\ pc' = "idle"
            /\ sim' = NoSim
            /\ runs' = [runs EXCEPT !.faulted = TRUE]
            /\ UNCHANGED <<restock, dbconn, probe, upstream, q_values, last>>
       ELSE \E step \in {DayStep(upstream, q_values, sim, draw, cdraw, cfault)} :
                /\ sim' = step.sim
                /\ q_values' = step.q
                /\ last' = step.obs
                /\ upstream' = [upstream EXCEPT !.hasStock = TRUE, !.stock = step.sim.stock]
                /\ UNCHANGED <<restock, dbconn, probe, pc, result, runs>>
    /\ UNCHANGED <<restock, dbconn, probe, replay, rec, upd, conc>>

\* lines 255-344: one simulated day; fault: an exception raised during the day
SimDay(draw, cdraw, cfault, fault) ==
    /\ pc = "loop"
    /\ sim.day < sim.days
    /\ IF fault
       THEN /\ result' = SimExcept(SimRaised)
            /\ pc' = "idle"
            /\ sim' = NoSim
            /\ runs' = [runs EXCEPT !.faulted = TRUE]
            /\ UNCHANGED <<restock, dbconn, probe, q_values, last>>
       ELSE \E step \in {DayStep(upstream, q_values, sim, draw, cdraw, cfault)} :
                /\ sim' = step.sim
                /\ q_values' = step.q
                /\ last' = step.obs
                /\ UNCHANGED <<restock, dbconn, probe, pc, result, runs>>
    /\ UNCHANGED <<restock, dbconn, probe, replay, upstream, rec, upd, conc>>

\* variant: the loop can be left before the last day of the horizon
SimFinish_Early(fault) ==
    /\ pc = "loop"
    /\ sim.day <= sim.days
    /\ pc' = "idle"
    /\ result' = SimExcept(IF fault THEN SimRaised ELSE SimResult(sim))
    /\ sim' = NoSim
    /\ runs' = [runs EXCEPT !.faulted = fault]
    /\ UNCHANGED <<restock, dbconn, probe, replay, upstream, q_values, rec, last, upd, conc>>

\* lines 347-363: the final metrics and the return
SimFinish(fault) ==
    /\ pc = "loop"
    /\ sim.day = sim.days
    /\ pc' = "idle"
    /\ result' = SimExcept(IF fault THEN SimRaised ELSE SimResult(sim))
    /\ sim' = NoSim
    /\ runs' = [runs EXCEPT !.faulted = fault]
    /\ UNCHANGED <<restock, dbconn, probe, replay, upstream, q_values, rec, last, upd, conc>>

Next ==
    \/ \E days \in 0..MaxDays, fault \in BOOLEAN :
         \E synth \in [1..days -> SynthDemand] : SimStart(days, synth, fault)
    \/ \E draw \in BOOLEAN, cdraw \in BOOLEAN, cfault \in BOOLEAN, fault \in BOOLEAN :
         SimDay(draw, cdraw, cfault, fault)
    \/ \E fault \in BOOLEAN : SimFinish(fault)

Spec == Init /\ [][Next]_vars

----------------------------------------------------------------------------
(* Direct calls by a caller: calculate_optimal_order_quantity and          *)
(* update_policy on one optimizer                                          *)

\* the state keys and rewards the callers pass to update_policy
CallKeys == { state_to_key(0, "low", "high"), state_to_key(15, "low", "high") }
CallRewards == { -150 * MoneyUnit, 7 * MoneyUnit, 150 * MoneyUnit }
Actions == {"order", "wait"}

\* variant: looking the state key up inserts a zero entry for it
Recommend_Inserts(draw, fault) ==
    /\ pc = "idle"
    /\ LET res == calculate_optimal_order_quantity(upstream, q_values, draw, fault)
       IN  /\ rec' = [res |-> res, draw |-> draw, fault |-> fault,
                      has_entry |-> res.state_key \in DOMAIN q_values, calls |-> 1]
           /\ q_values' = IF res.kind = "ok" THEN LazyInsert(q_values, res.state_key)
                          ELSE q_values
    /\ UNCHANGED <<restock, dbconn, probe, replay, upstream, pc, sim, result, last, runs, upd, conc>>

\* lines 20-148
Recommend(draw, fault) ==
    /\ pc = "idle"
    /\ rec' =
         LET res == calculate_optimal_order_quantity(upstream, q_values, draw, fault)
         IN  [res |-> res, draw |-> draw, fault |-> fault,
              has_entry |-> res.state_key \in DOMAIN q_values, calls |-> 1]
    /\ UNCHANGED <<restock, dbconn, probe, replay, upstream, q_values, pc, sim, result, last, runs, upd, conc>>

\* lines 168-184
UpdatePolicy(state_key, action, reward, next_state_key) ==
    /\ pc = "idle"
    /\ upd.calls < MaxUpdates
    /\ q_values' = update_policy(q_values, state_key, action, reward, next_state_key)
    /\ upd' = [calls |-> upd.calls + 1, state_key |-> state_key, action |-> action,
               reward |-> reward, next_state_key |-> next_state_key,
               q_before |-> q_values]
    /\ rec' = NoRec
    /\ UNCHANGED <<restock, dbconn, probe, replay, upstream, pc, sim, result, last, runs, conc>>

PolicyUpstreams ==
    { u \in Upstreams :
        \/ u \in MissingUpstreams
        \/ u.hasLead /\ u.lead = 1 /\ u.sales = <<10, 10, 10>> }

InitPolicy ==
    /\ upstream \in PolicyUpstreams
    /\ InitOptimizer

NextPolicy ==
    \/ \E draw \in BOOLEAN, fault \in BOOLEAN : Recommend(draw, fault)
    \/ \E s \in CallKeys, a \in Actions, r \in CallRewards, n \in CallKeys :
         UpdatePolicy(s, a, r, n)

SpecPolicy == InitPolicy /\ [][NextPolicy]_vars

----------------------------------------------------------------------------
(* Two threads calling update_policy on the shared table.  The method takes *)
(* no lock; each dictionary operation is one step of the interpreter, and   *)
(* a thread switch can happen between any two of them.                      *)

ConcRewards == { 7 * MoneyUnit, 150 * MoneyUnit }

\* a table one earlier update has left
TrainedTable ==
    update_policy(EmptyTable, state_to_key(0, "low", "high"), "wait", 150 * MoneyUnit,
                  state_to_key(0, "low", "high"))

ThreadAt(t, where) == conc.thr[t].pc = where

Goto(t, where) == [conc EXCEPT !.thr[t].pc = where]

\* the call: update_policy(state_key, action, reward, next_state_key)
ConcCall(t, state_key, action, reward, next_state_key) ==
    /\ ThreadAt(t, "start")
    /\ conc' = [conc EXCEPT !.thr[t] =
                  [NoThread EXCEPT !.pc = "test1", !.state_key = state_key,
                                   !.action = action, !.reward = reward,
                                   !.next_state_key = next_state_key]]
    /\ UNCHANGED <<restock, dbconn, probe, replay, upstream, q_values, pc, sim, result, rec, last, runs, upd>>

\* line 171: if state_key not in self.q_values
ConcTest1(t) ==
    /\ ThreadAt(t, "test1")
    /\ conc' = Goto(t, IF conc.thr[t].state_key \in DOMAIN q_values THEN "test2" ELSE "insert1")
    /\ UNCHANGED <<restock, dbconn, probe, replay, upstream, q_values, pc, sim, result, rec, last, runs, upd>>

\* the assignment self.q_values[key] = {"order": 0.0, "wait": 0.0}
StoreZero(q, key) ==
    [k \in DOMAIN q \cup {key} |-> IF k = key THEN ZeroEntry ELSE q[k]]

\* line 172
ConcInsert1(t) ==
    /\ ThreadAt(t, "insert1")
    /\ q_values' = StoreZero(q_values, conc.thr[t].state_key)
    /\ conc' = Goto(t, "test2")
    /\ UNCHANGED <<restock, dbconn, probe, replay, upstream, pc, sim, result, rec, last, runs, upd>>

\* line 174
ConcTest2(t) ==
    /\ ThreadAt(t, "test2")
    /\ conc' = Goto(t, IF conc.thr[t].next_state_key \in DOMAIN q_values
                       THEN "read1" ELSE "insert2")
    /\ UNCHANGED <<restock, dbconn, probe, replay, upstream, q_values, pc, sim, result, rec, last, runs, upd>>

\* line 175
ConcInsert2(t) ==
    /\ ThreadAt(t, "insert2")
    /\ q_values' = StoreZero(q_values, conc.thr[t].next_state_key)
    /\ conc' = Goto(t, "read1")
    /\ UNCHANGED <<restock, dbconn, probe, replay, upstream, pc, sim, result, rec, last, runs, upd>>

\* line 178
ConcReadCurrent(t) ==
    /\ ThreadAt(t, "read1")
    /\ conc' = [conc EXCEPT !.thr[t].pc = "read2",
                            !.thr[t].current_q =
                                q_values[conc.thr[t].state_key][conc.thr[t].action]]
    /\ UNCHANGED <<restock, dbconn, probe, replay, upstream, q_values, pc, sim, result, rec, last, runs, upd>>

\* line 179
ConcReadMaxNext(t) ==
    /\ ThreadAt(t, "read2")
    /\ conc' = [conc EXCEPT !.thr[t].pc = "write",
                            !.thr[t].max_next_q =
                                MaxNextQ(q_values[conc.thr[t].next_state_key])]
    /\ UNCHANGED <<restock, dbconn, probe, replay, upstream, q_values, pc, sim, result, rec, last, runs, upd>>

\* lines 182-184
ConcWrite(t) ==
    /\ ThreadAt(t, "write")
    /\ q_values' =
         [q_values EXCEPT ![conc.thr[t].state_key][conc.thr[t].action] =
            TDUpdate(conc.thr[t].current_q, conc.thr[t].reward, conc.thr[t].max_next_q)]
    /\ conc' = Goto(t, "done")
    /\ UNCHANGED <<restock, dbconn, probe, replay, upstream, pc, sim, result, rec, last, runs, upd>>

InitConc ==
    /\ upstream \in { u \in MissingUpstreams : ~u.pricing }
    /\ q_values \in {EmptyTable, TrainedTable}
    /\ pc = "idle"
    /\ sim = NoSim
    /\ result = NoResult
    /\ rec = NoRec
    /\ last = NoObs
    /\ runs = [started |-> 0, days |-> 0, asked |-> 0, faulted |-> FALSE]
    /\ upd = NoUpd
    /\ conc = [NoConc EXCEPT !.q0 = q_values]
    /\ replay = NoReplay
    /\ probe = NoProbe
    /\ restock = NoRestock
    /\ dbconn = NoDbConn

NextConc ==
    \E t \in Threads :
      \/ \E s \in CallKeys, a \in Actions, r \in ConcRewards, n \in CallKeys :
           ConcCall(t, s, a, r, n)
      \/ ConcTest1(t)
      \/ ConcInsert1(t)
      \/ ConcTest2(t)
      \/ ConcInsert2(t)
      \/ ConcReadCurrent(t)
      \/ ConcReadMaxNext(t)
      \/ ConcWrite(t)

SpecConc == InitConc /\ [][NextConc]_vars

----------------------------------------------------------------------------
(* The same simulation run twice, each time on a newly constructed          *)
(* optimizer: the first run's days, demand sequence, random draws and the   *)
(* answers of the upstream queries are kept and given again to the second.  *)
(* The draw inside the calculator call of a day is left free in both runs.  *)

\* simulate_policy is called on the first optimizer
FirstStart(days, synth) ==
    /\ replay.phase = "first"
    /\ pc = "idle"
    /\ pc' = "loop"
    /\ sim' = SimLocals(upstream, days, synth)
    /\ UNCHANGED <<restock, dbconn, probe, upstream, q_values, result, rec, last, runs, upd, conc, replay>>

\* lines 255-344: a day of the first run; its draws are kept
FirstDay(draw, cdraw, cfault) ==
    /\ replay.phase = "first"
    /\ pc = "loop"
    /\ sim.day < sim.days
    /\ \E step \in {DayStep(upstream, q_values, sim, draw, cdraw, cfault)} :
           /\ sim' = step.sim
           /\ q_values' = step.q
           /\ last' = step.obs
    /\ replay' = [replay EXCEPT !.inputs = Append(@, <<draw, cfault>>)]
    /\ UNCHANGED <<restock, dbconn, probe, upstream, pc, result, rec, runs, upd, conc>>

\* lines 347-363: the first run returns
FirstFinish ==
    /\ replay.phase = "first"
    /\ pc = "loop"
    /\ sim.day = sim.days
    /\ pc' = "idle"
    /\ result' = SimExcept(SimResult(sim))
    /\ replay' = [replay EXCEPT !.phase = "returned", !.first = SimResult(sim),
                                !.days = sim.days, !.daily_demand = sim.daily_demand]
    /\ sim' = NoSim
    /\ UNCHANGED <<restock, dbconn, probe, upstream, q_values, rec, last, runs, upd, conc>>

\* variant: the table is an attribute of the class, shared by every optimizer
NewOptimizer_SharedTable ==
    /\ replay.phase = "returned"
    /\ replay' = [replay EXCEPT !.phase = "second"]
    /\ UNCHANGED <<restock, dbconn, probe, upstream, q_values, pc, sim, result, rec, last, runs, upd, conc>>

\* lines 8-18: InventoryOptimizer() is constructed again; self.q_values = {}
NewOptimizer ==
    /\ replay.phase = "returned"
    /\ q_values' = EmptyTable
    /\ replay' = [replay EXCEPT !.phase = "second"]
    /\ UNCHANGED <<restock, dbconn, probe, upstream, pc, sim, result, rec, last, runs, upd, conc>>

\* simulate_policy is called on the second optimizer: the same upstream rows,
\* the same days, the same demand sequence
SecondStart ==
    /\ replay.phase = "second"
    /\ pc = "idle"
    /\ pc' = "loop"
    /\ sim' = SimLocals(upstream, replay.days, replay.daily_demand)
    /\ last' = NoObs
    /\ UNCHANGED <<restock, dbconn, probe, upstream, q_values, result, rec, runs, upd, conc, replay>>

\* a day of the second run, with the draws of the same day of the first
SecondDay(cdraw) ==
    /\ replay.phase = "second"
    /\ pc = "loop"
    /\ sim.day < sim.days
    /\ \E in \in {replay.inputs[sim.day + 1]} :
       \E step \in {DayStep(upstream, q_values, sim, in[1], cdraw, in[2])} :
           /\ sim' = step.sim
           /\ q_values' = step.q
           /\ last' = step.obs
    /\ UNCHANGED <<restock, dbconn, probe, upstream, pc, result, rec, runs, upd, conc, replay>>

\* the second run returns
SecondFinish ==
    /\ replay.phase = "second"
    /\ pc = "loop"
    /\ sim.day = sim.days
    /\ pc' = "idle"
    /\ result' = SimExcept(SimResult(sim))
    /\ replay' = [replay EXCEPT !.phase = "done"]
    /\ sim' = NoSim
    /\ UNCHANGED <<restock, dbconn, probe, upstream, q_values, rec, last, runs, upd, conc>>

\* pairs with an empty shelf and a supplier with lead time 1; every sales history
ReplayUpstreams ==
    { u \in Upstreams :
        PriceCostRow(u) /\ u.hasStock /\ u.stock = 0 /\ u.hasLead /\ u.lead = 1 }

InitReplay ==
    /\ upstream \in ReplayUpstreams
    /\ q_values = EmptyTable
    /\ pc = "idle"
    /\ sim = NoSim
    /\ result = NoResult
    /\ rec = NoRec
    /\ last = NoObs
    /\ runs = [started |-> 0, days |-> 0, asked |-> 0, faulted |-> FALSE]
    /\ upd = NoUpd
    /\ conc = NoConc
    /\ replay = [NoReplay EXCEPT !.phase = "first"]
    /\ probe = NoProbe
    /\ restock = NoRestock
    /\ dbconn = NoDbConn

NextReplay ==
    \/ \E days \in 0..MaxDays : \E synth \in [1..days -> SynthDemand] : FirstStart(days, synth)
    \/ \E draw \in BOOLEAN, cdraw \in BOOLEAN, cfault \in BOOLEAN : FirstDay(draw, cdraw, cfault)
    \/ FirstFinish
    \/ NewOptimizer
    \/ SecondStart
    \/ \E cdraw \in BOOLEAN : SecondDay(cdraw)
    \/ SecondFinish

SpecReplay == InitReplay /\ [][NextReplay]_vars

----------------------------------------------------------------------------
(* One optimizer on which a caller makes all three calls in any order:      *)
(* simulate_policy, calculate_optimal_order_quantity and update_policy      *)

\* the pair has an empty shelf, a supplier with lead time 1 and three days of
\* sales, inside the calculator's 30-day window or all older than it
AllUpstreams ==
    { u \in Upstreams :
        /\ PriceCostRow(u) /\ u.hasStock /\ u.stock = 0
        /\ u.hasLead /\ u.lead = 1 /\ u.sales = <<10, 10, 10>> }

InitAll ==
    /\ upstream \in AllUpstreams
    /\ InitOptimizer

\* the direct update_policy call of the caller
AllKey == state_to_key(0, "low", "high")
AllReward == 150 * MoneyUnit

NextAll ==
    \/ \E days \in 0..MaxDays, fault \in BOOLEAN : SimStart(days, [i \in 1..days |-> 12], fault)
    \/ \E draw \in BOOLEAN, cdraw \in BOOLEAN, cfault \in BOOLEAN, fault \in BOOLEAN :
         SimDay(draw, cdraw, cfault, fault)
    \/ \E fault \in BOOLEAN : SimFinish(fault)
    \/ \E draw \in BOOLEAN, fault \in BOOLEAN : Recommend(draw, fault)
    \/ UpdatePolicy(AllKey, "order", AllReward, AllKey)

SpecAll == InitAll /\ [][NextAll]_vars

----------------------------------------------------------------------------
(* update_policy on an optimizer whose learning_rate attribute has been set *)
(* to 0 after some training                                                 *)

\* tables that earlier updates at the constructor's rate have left
ZeroRateTables ==
    { EmptyTable, TrainedTable,
      update_policy(TrainedTable, state_to_key(15, "low", "high"), "order", 7 * MoneyUnit,
                    state_to_key(0, "low", "high")) }

\* lines 168-184 with self.learning_rate = 0
UpdatePolicyZeroRate(state_key, action, reward, next_state_key) ==
    /\ pc = "idle"
    /\ upd.calls < MaxUpdates
    /\ q_values' = update_policy_with(0, q_values, state_key, action, reward, next_state_key)
    /\ upd' = [calls |-> upd.calls + 1, state_key |-> state_key, action |-> action,
               reward |-> reward, next_state_key |-> next_state_key,
               q_before |-> q_values, q_start |-> upd.q_start]
    /\ UNCHANGED <<restock, dbconn, probe, replay, upstream, pc, sim, result, rec, last, runs, conc>>

InitZeroRate ==
    /\ upstream \in { u \in MissingUpstreams : ~u.pricing }
    /\ q_values \in ZeroRateTables
    /\ pc = "idle"
    /\ sim = NoSim
    /\ result = NoResult
    /\ rec = NoRec
    /\ last = NoObs
    /\ runs = [started |-> 0, days |-> 0, asked |-> 0, faulted |-> FALSE]
    /\ upd = [calls |-> 0, q_start |-> q_values]
    /\ conc = NoConc
    /\ replay = NoReplay
    /\ probe = NoProbe
    /\ restock = NoRestock
    /\ dbconn = NoDbConn

NextZeroRate ==
    \E s \in CallKeys, a \in Actions, r \in CallRewards, n \in CallKeys :
      UpdatePolicyZeroRate(s, a, r, n)

SpecZeroRate == InitZeroRate /\ [][NextZeroRate]_vars

----------------------------------------------------------------------------
(* state_to_key called twice, on any two argument triples                  *)

\* stock levels on both sides of every bucket bound
KeyStocks == {-1, 0, 4, 5, 19, 20, 49, 50, 99, 100, 199, 200, 250}

\* the demand levels and the price ratios the optimizer passes
Levels == {"low", "medium", "high"}

KeyArgs == [stock : KeyStocks, demand_level : Levels, price_ratio : Levels]

\* lines 150-166: the first call, then the second
KeyCall ==
    /\ probe.calls < 2
    /\ probe' =
         IF probe.calls = 0
         THEN [probe EXCEPT !.calls = 1,
                 !.ka = state_to_key(probe.a.stock, probe.a.demand_level, probe.a.price_ratio)]
         ELSE [probe EXCEPT !.calls = 2,
                 !.kb = state_to_key(probe.b.stock, probe.b.demand_level, probe.b.price_ratio)]
    /\ UNCHANGED <<restock, dbconn, upstream, q_values, pc, sim, result, rec, last, runs, upd,
                   conc, replay>>

InitKey ==
    /\ upstream \in { u \in MissingUpstreams : ~u.pricing }
    /\ q_values = EmptyTable
    /\ pc = "idle"
    /\ sim = NoSim
    /\ result = NoResult
    /\ rec = NoRec
    /\ last = NoObs
    /\ runs = [started |-> 0, days |-> 0, asked |-> 0, faulted |-> FALSE]
    /\ upd = NoUpd
    /\ conc = NoConc
    /\ replay = NoReplay
    /\ \E a \in KeyArgs, b \in KeyArgs : probe = [calls |-> 0, a |-> a, b |-> b, ka |-> "", kb |-> ""]
    /\ restock = NoRestock
    /\ dbconn = NoDbConn

NextKey == KeyCall

SpecKey == InitKey /\ [][NextKey]_vars

----------------------------------------------------------------------------
(* The calculator alone, over a wider range of upstream rows               *)

\* thirty days of ten units each
FlatMonth == [i \in 1..30 |-> 10]

CalcSales == {FlatMonth, <<10, 10, 10>>, <<4, 10>>, <<1, 30>>, <<0, 0>>}
CalcLeadRows == {<<FALSE, 0>>, <<TRUE, 0>>, <<TRUE, 1>>, <<TRUE, 2>>, <<TRUE, 7>>}

\* complete data with the window holding every row, or no row at all
CalcUpstreams ==
    { UpstreamRow(TRUE, TRUE, p, sl, r * Len(sl), st[1], st[2], ld[1], ld[2]) :
        p \in PriceCosts, sl \in CalcSales, r \in {0, 1}, st \in StockRows,
        ld \in CalcLeadRows }
      \cup MissingUpstreams

InitCalc ==
    /\ upstream \in CalcUpstreams
    /\ InitOptimizer

NextCalc == \E draw \in BOOLEAN, fault \in BOOLEAN : Recommend(draw, fault)

SpecCalc == InitCalc /\ [][NextCalc]_vars

----------------------------------------------------------------------------
(* Recommendations made after the table has learned, at stock levels below  *)
(* and far above the reorder point                                          *)

OverrideStocks == {0, 15, 2000}

\* three days of sales inside the window, a supplier with lead time 1
OverrideUpstreams ==
    { UpstreamRow(TRUE, TRUE, p, <<10, 10, 10>>, 3, TRUE, st, TRUE, 1) :
        p \in PriceCosts, st \in OverrideStocks }

\* the keys the calculator looks up for these pairs
OverrideKeys == { state_to_key(st, "low", "high") : st \in OverrideStocks }
OverrideRewards == { -150 * MoneyUnit, 150 * MoneyUnit }

InitOverride ==
    /\ upstream \in OverrideUpstreams
    /\ InitOptimizer

NextOverride ==
    \/ \E draw \in BOOLEAN, fault \in BOOLEAN : Recommend(draw, fault)
    \/ \E s \in OverrideKeys, a \in Actions, r \in OverrideRewards :
         UpdatePolicy(s, a, r, s)

SpecOverride == InitOverride /\ [][NextOverride]_vars

----------------------------------------------------------------------------
(* simulate_policy at the edges: no days, an empty shelf, a unit cost of 0  *)

EdgePriceCosts == {<<12, 0>>, <<12, 5>>}

\* an empty shelf and two days without sales inside the window, after a day
\* of 500 units older than the window: the delivery of the first order is
\* sold out on the third simulated day
SelloutUpstream ==
    UpstreamRow(TRUE, TRUE, <<12, 5>>, <<0, 0, 500>>, 2, TRUE, 0, TRUE, 1)

\* no inventory row or an empty shelf, lead time 0 or 1, no sales or three days
EdgeUpstreams ==
    { UpstreamRow(TRUE, TRUE, p, sl, Len(sl), st[1], st[2], TRUE, ld) :
        p \in EdgePriceCosts, sl \in {<< >>, <<10, 10, 10>>},
        st \in {<<FALSE, 0>>, <<TRUE, 0>>}, ld \in {0, 1} }
      \cup { SelloutUpstream }

InitEdge ==
    /\ upstream \in EdgeUpstreams
    /\ InitOptimizer

NextEdge == Next

SpecEdge == InitEdge /\ [][NextEdge]_vars

----------------------------------------------------------------------------
(* WarehouseAgent.handle_restock_requests, called by concurrent workers,    *)
(* and StoreAgent.request_restock, for one (store, product) pair.  Every    *)
(* "with db_connection()" block opens a connection of its own; the module   *)
(* lock db_lock is never acquired.  A SELECT reads the committed rows.  The *)
(* statements from the first UPDATE to conn.commit() form one write         *)
(* transaction of SQLite: it holds the database's write lock, other         *)
(* connections read the rows as committed before it, so it takes effect as  *)
(* one step at its commit.                                                  *)

Workers == {1, 2}
Quantities == {3, 5}

NoWorker == [pc |-> "idle", request_ids |-> << >>, req_id |-> 0, quantity |-> 0,
             requests_processed |-> 0]

\* the ids of the pending requests, ORDER BY id ASC
PendingIds(requests) ==
    LET Ordered[n \in 0..Len(requests)] ==
          IF n = 0 THEN << >>
          ELSE IF requests[n].status = "pending" THEN Append(Ordered[n - 1], n)
          ELSE Ordered[n - 1]
    IN  Ordered[Len(requests)]

\* store_agent.py lines 147-153: INSERT INTO restock_requests ... 'pending'
RequestRestock(quantity) ==
    /\ Len(restock.requests) < MaxRequests
    /\ restock' = [restock EXCEPT
                     !.requests = Append(@, [status |-> "pending", quantity |-> quantity,
                                             applied |-> 0])]
    /\ UNCHANGED <<dbconn, probe, replay, upstream, q_values, pc, sim, result, rec, last,
                   runs, upd, conc>>

\* lines 65-71: the call reads the ids of the pending requests
ListPending(w) ==
    /\ restock.worker[w].pc = "idle"
    /\ restock' = [restock EXCEPT
                     !.worker[w].pc = "loop",
                     !.worker[w].request_ids = PendingIds(restock.requests)]
    /\ UNCHANGED <<dbconn, probe, replay, upstream, q_values, pc, sim, result, rec, last,
                   runs, upd, conc>>

\* lines 76-91: the next id of the list; the request is read again and
\* skipped when it is no longer pending
SelectRequest(w) ==
    /\ restock.worker[w].pc = "loop"
    /\ restock.worker[w].request_ids # << >>
    /\ LET req_id == Head(restock.worker[w].request_ids)
           request == restock.requests[req_id]
       IN  restock' =
             IF request.status = "pending"
             THEN [restock EXCEPT
                     !.worker[w].pc = "write",
                     !.worker[w].request_ids = Tail(@),
                     !.worker[w].req_id = req_id,
                     !.worker[w].quantity = request.quantity]
             ELSE [restock EXCEPT !.worker[w].request_ids = Tail(@)]
    /\ UNCHANGED <<dbconn, probe, replay, upstream, q_values, pc, sim, result, rec, last,
                   runs, upd, conc>>

\* lines 97-116: UPDATE inventory (INSERT when no row was updated), UPDATE
\* restock_requests SET status = 'completed', commit
CompleteRequest(w) ==
    /\ restock.worker[w].pc = "write"
    /\ LET me == restock.worker[w]
       IN  restock' =
             [restock EXCEPT
                !.hasRow = TRUE,
                !.stock_level = IF restock.hasRow THEN @ + me.quantity ELSE me.quantity,
                !.requests[me.req_id].status = "completed",
                !.requests[me.req_id].applied = @ + 1,
                !.worker[w].pc = "loop",
                !.worker[w].requests_processed = @ + 1]
    /\ UNCHANGED <<dbconn, probe, replay, upstream, q_values, pc, sim, result, rec, last,
                   runs, upd, conc>>

\* line 123: the list is exhausted, the call returns requests_processed
ReturnProcessed(w) ==
    /\ restock.worker[w].pc = "loop"
    /\ restock.worker[w].request_ids = << >>
    /\ restock' = [restock EXCEPT !.worker[w].pc = "done"]
    /\ UNCHANGED <<dbconn, probe, replay, upstream, q_values, pc, sim, result, rec, last,
                   runs, upd, conc>>

\* the inventory row of the pair: absent, or present with stock 0 or 10
InitRestock ==
    /\ upstream \in { u \in MissingUpstreams : ~u.pricing }
    /\ q_values = EmptyTable
    /\ pc = "idle"
    /\ sim = NoSim
    /\ result = NoResult
    /\ rec = NoRec
    /\ last = NoObs
    /\ runs = [started |-> 0, days |-> 0, asked |-> 0, faulted |-> FALSE]
    /\ upd = NoUpd
    /\ conc = NoConc
    /\ replay = NoReplay
    /\ probe = NoProbe
    /\ dbconn = NoDbConn
    /\ \E row \in {<<FALSE, 0>>, <<TRUE, 0>>, <<TRUE, 10>>} :
         restock = [requests |-> << >>, hasRow |-> row[1],
                    stock_level |-> row[2], stock_before |-> row[2],
                    worker |-> [w \in Workers |-> NoWorker]]

NextRestock ==
    \/ \E quantity \in Quantities : RequestRestock(quantity)
    \/ \E w \in Workers : ListPending(w)
    \/ \E w \in Workers : SelectRequest(w)
    \/ \E w \in Workers : CompleteRequest(w)
    \/ \E w \in Workers : ReturnProcessed(w)

SpecRestock == InitRestock /\ [][NextRestock]_vars

----------------------------------------------------------------------------
(* db_connection: a generator under contextlib.contextmanager.  The caller's *)
(* with-statement runs it to its yield, runs the body, and then resumes it:  *)
(* with next() when the body completed, with throw(exception) when the body  *)
(* raised.  A generator that yields again after throw() makes the            *)
(* with-statement raise RuntimeError("generator didn't stop after throw()"), *)
(* and the discarded generator is closed, which runs its finally clause.     *)

retries == 5

\* the exceptions of a call: OperationalError 'database is locked', another
\* OperationalError, an exception of another class raised by the body
ConnectErrors == {"locked", "operational"}
BodyErrors == {"locked", "operational", "other"}

\* line 33: "database is locked" in str(e) and attempt < retries - 1, with the
\* attempts counted from 1
ShouldRetry(err, attempt) == err = "locked" /\ attempt < retries

\* lines 19-21: sqlite3.connect returns a connection or raises
Connect(ok, err) ==
    /\ dbconn.pc = "connect"
    /\ dbconn' = IF ok
                 THEN [dbconn EXCEPT !.pc = "pragma", !.opened = @ + 1]
                 ELSE [dbconn EXCEPT !.pc = "except", !.err = err]
    /\ UNCHANGED <<restock, probe, replay, upstream, q_values, pc, sim, result, rec, last,
                   runs, upd, conc>>

\* lines 22-26: row_factory and the two PRAGMA statements; an error here
\* leaves the try block before the inner try/finally, conn.close() is not run
Pragma(ok, err) ==
    /\ dbconn.pc = "pragma"
    /\ dbconn' = IF ok
                 THEN [dbconn EXCEPT !.pc = "yield"]
                 ELSE [dbconn EXCEPT !.pc = "except", !.err = err]
    /\ UNCHANGED <<restock, probe, replay, upstream, q_values, pc, sim, result, rec, last,
                   runs, upd, conc>>

\* line 29: yield conn.  The first yield hands the connection to the body; a
\* yield after throw() ends the with-statement with RuntimeError, and the
\* close of the generator runs the finally clause of line 31
Yield ==
    /\ dbconn.pc = "yield"
    /\ dbconn' = IF ~dbconn.thrown
                 THEN [dbconn EXCEPT !.pc = "body", !.bodies = @ + 1]
                 ELSE [dbconn EXCEPT !.pc = "done", !.outcome = "RuntimeError",
                                     !.closed = @ + 1]
    /\ UNCHANGED <<restock, probe, replay, upstream, q_values, pc, sim, result, rec, last,
                   runs, upd, conc>>

\* lines 30-32: the body completed; conn.close(), break, the call returns
BodyReturns ==
    /\ dbconn.pc = "body"
    /\ dbconn' = [dbconn EXCEPT !.pc = "done", !.outcome = "returned", !.closed = @ + 1]
    /\ UNCHANGED <<restock, probe, replay, upstream, q_values, pc, sim, result, rec, last,
                   runs, upd, conc>>

\* lines 30-33: the body raised; the exception is thrown into the generator at
\* the yield, conn.close() runs, and an OperationalError reaches the handler
BodyRaises(err) ==
    /\ dbconn.pc = "body"
    /\ dbconn' = IF err = "other"
                 THEN [dbconn EXCEPT !.pc = "done", !.outcome = err, !.closed = @ + 1,
                                     !.thrown = TRUE]
                 ELSE [dbconn EXCEPT !.pc = "except", !.err = err, !.closed = @ + 1,
                                     !.thrown = TRUE, !.body_locked_at =
                                        IF err = "locked" /\ @ = 0 THEN dbconn.attempt ELSE @]
    /\ UNCHANGED <<restock, probe, replay, upstream, q_values, pc, sim, result, rec, last,
                   runs, upd, conc>>

\* lines 33-41: sleep and take the next attempt, or re-raise
Except ==
    /\ dbconn.pc = "except"
    /\ dbconn' = IF ShouldRetry(dbconn.err, dbconn.attempt)
                 THEN [dbconn EXCEPT !.pc = "connect", !.attempt = @ + 1, !.err = "none"]
                 ELSE [dbconn EXCEPT !.pc = "done", !.outcome = dbconn.err]
    /\ UNCHANGED <<restock, probe, replay, upstream, q_values, pc, sim, result, rec, last,
                   runs, upd, conc>>

\* line 14-19: the with-statement calls db_connection(), the first attempt
InitConn ==
    /\ upstream \in { u \in MissingUpstreams : ~u.pricing }
    /\ q_values = EmptyTable
    /\ pc = "idle"
    /\ sim = NoSim
    /\ result = NoResult
    /\ rec = NoRec
    /\ last = NoObs
    /\ runs = [started |-> 0, days |-> 0, asked |-> 0, faulted |-> FALSE]
    /\ upd = NoUpd
    /\ conc = NoConc
    /\ replay = NoReplay
    /\ probe = NoProbe
    /\ restock = NoRestock
    /\ dbconn = [attempt |-> 1, pc |-> "connect", opened |-> 0, closed |-> 0,
                 err |-> "none", thrown |-> FALSE, bodies |-> 0, body_locked_at |-> 0,
                 outcome |-> "none"]

NextConn ==
    \/ \E ok \in BOOLEAN, err \in ConnectErrors : Connect(ok, err)
    \/ \E ok \in BOOLEAN, err \in ConnectErrors : Pragma(ok, err)
    \/ Yield
    \/ BodyReturns
    \/ \E err \in BodyErrors : BodyRaises(err)
    \/ Except

SpecConn == InitConn /\ [][NextConn]_vars

----------------------------------------------------------------------------
(* Properties                                                              *)

\* the DayRecord of the day the loop has just finished
LastRecord == sim.daily_results[sim.day]

DayDone == pc = "loop" /\ last.day > 0

\* C1: on a simulated day on which days_to_delivery is still > 0 after the
\* delivery step, no order is placed: the action is "wait", nothing is
\* recorded as ordered, and days_to_delivery and pending_delivery keep the
\* values they had at the decision, whatever the table and the draw say.
C1_NoOrderWhilePending ==
    (DayDone /\ last.dtd_at_decision > 0) =>
        /\ last.action = "wait"
        /\ LastRecord.action = "wait"
        /\ LastRecord.ordered = 0
        /\ sim.days_to_delivery = last.dtd_at_decision
        /\ sim.pending_delivery = last.pending_at_decision

\* a day with a delivery still pending on which the blended decision said "order"
C1_Witness ==
    DayDone /\ last.dtd_at_decision > 0 /\ last.should_order
        /\ last.pending_at_decision > 0

\* C2: on every simulated day sold = min(stock, demand), sold + missed =
\* demand, and stock_after = stock_before - sold + delivered_this_day, where
\* delivered_this_day is the pending quantity when it arrives that day and 0
\* otherwise.
C2_UnitsConserved ==
    DayDone =>
        LET available == last.stock_before + last.delivered
        IN  /\ last.delivered = (IF last.dtd_before = 1 THEN last.pending_before ELSE 0)
            /\ LastRecord.sold =
                 (IF available <= LastRecord.demand THEN available ELSE LastRecord.demand)
            /\ LastRecord.sold + LastRecord.missed = LastRecord.demand
            /\ LastRecord.stock = last.stock_before - LastRecord.sold + last.delivered
            /\ sim.stock = LastRecord.stock

\* a day on which a delivery arrived and units were sold, in a run with a stockout day
C2_Witness ==
    /\ DayDone
    /\ last.delivered > 0
    /\ LastRecord.sold > 0
    /\ \E i \in 1..Len(sim.daily_results) : sim.daily_results[i].missed > 0

AllDone == \A t \in Threads : ThreadAt(t, "done")

ApplyCall(q, c) == update_policy(q, c.state_key, c.action, c.reward, c.next_state_key)

\* C3: two concurrent update_policy calls on the same (state key, action)
\* entry lose no update: once both have returned, the entry holds what the
\* two calls give when applied one after the other, in one of the two orders.
C3_NoLostUpdate ==
    (/\ AllDone
     /\ conc.thr[1].state_key = conc.thr[2].state_key
     /\ conc.thr[1].action = conc.thr[2].action) =>
        LET k == conc.thr[1].state_key
            a == conc.thr[1].action
            s12 == ApplyCall(ApplyCall(conc.q0, conc.thr[1]), conc.thr[2])
            s21 == ApplyCall(ApplyCall(conc.q0, conc.thr[2]), conc.thr[1])
        IN  q_values[k][a] \in {s12[k][a], s21[k][a]}

Returned == pc = "idle" /\ runs.started > 0

Aborted == Returned /\ result.kind = "error" /\ result.daily_results = << >>

\* C4 as stated: whenever pricing, supplier or sales history is missing, the
\* simulation never enters its loop and every call returns an error object
\* with no DayRecords.
C4_AbortsOnAnyMissingInput ==
    (~upstream.pricing \/ ~upstream.supplier \/ upstream.sales = << >>) =>
        /\ pc = "idle"
        /\ runs.started > 0 => Aborted

\* C4, amended: without a pricing row or without a supplier row the
\* simulation never enters its loop and every call returns an error object
\* with no DayRecords; with pricing and supplier present and no sales history
\* a call that meets no exception is not aborted: it runs, on the default
\* mean demand.
C4_AbortsOnMissingPricingOrSupplier ==
    /\ (~upstream.pricing \/ ~upstream.supplier) =>
          /\ pc = "idle"
          /\ runs.started > 0 => Aborted
    /\ (upstream.pricing /\ upstream.supplier /\ upstream.sales = << >>
          /\ runs.started > 0 /\ ~runs.faulted) =>
          \/ pc = "loop" /\ sim.mean_num = 10 * sim.mean_den
          \/ Returned /\ result.kind = "ok"

\* a call on a product with a pricing row and no supplier has returned the error
C4_Witness ==
    /\ upstream.pricing /\ ~upstream.supplier
    /\ Aborted
    /\ result.message = "No pricing or supplier data available"

\* C5: calculate_optimal_order_quantity never lets an exception out, and
\* without pricing/supplier data, without sales in the 30-day window, or on
\* an exception inside, it returns the sentinel: order_quantity 0,
\* reorder_point 0 and a message.
C5_SentinelNeverRaises ==
    rec.calls > 0 =>
        /\ rec.res.kind \in {"ok", "sentinel"}
        /\ (~upstream.pricing \/ ~upstream.supplier \/ upstream.recent = 0 \/ rec.fault) =>
              /\ rec.res.kind = "sentinel"
              /\ rec.res.order_quantity = 0
              /\ rec.res.reorder_point = 0
              /\ rec.res.message # ""

\* a query failed inside a call on complete data, and the sentinel came back
C5_Witness ==
    /\ rec.calls > 0 /\ rec.fault
    /\ upstream.pricing /\ upstream.supplier /\ upstream.recent > 0
    /\ rec.res.kind = "sentinel" /\ rec.res.message = "Error"

\* C6: simulate_policy never lets an exception out: a call that met an
\* exception, in the data retrieval, on any day of the loop or in the final
\* metrics, has returned an error object and no SimulationResult.
C6_NoExceptionEscapes ==
    /\ result.kind \in {"none", "ok", "error"}
    /\ runs.faulted => Aborted

\* the exception came after at least one simulated day had updated the table
C6_Witness ==
    /\ runs.started = 1 /\ runs.faulted
    /\ Aborted /\ result.message = "Simulation error"
    /\ q_values # EmptyTable

\* the value of (k, act) once k has been lazily inserted into q
ValueIn(q, k, act) == IF k \in DOMAIN q THEN q[k][act] ELSE 0

\* C7: update_policy(s, a, reward, s') sets Q(s,a) to
\* Q(s,a) + 0.1 * (reward + 0.9 * max(Q(s',order), Q(s',wait)) - Q(s,a)), the
\* old values read after s and s' have been inserted with 0.0, and leaves the
\* value of every other (state, action) entry as it was.  The equation is
\* stated times 1000, up to the two roundings of the money unit.
C7_UpdateRule ==
    upd.calls > 0 =>
        LET q0 == upd.q_before
            s == upd.state_key
            a == upd.action
            n == upd.next_state_key
            old == ValueIn(q0, s, a)
            nxt == IF ValueIn(q0, n, "order") >= ValueIn(q0, n, "wait")
                   THEN ValueIn(q0, n, "order") ELSE ValueIn(q0, n, "wait")
            diff == 1000 * (q_values[s][a] - old) - (100 * upd.reward + 90 * nxt - 100 * old)
        IN  /\ DOMAIN q_values = DOMAIN q0 \cup {s, n}
            /\ -2000 <= diff /\ diff <= 2000
            /\ \A k \in DOMAIN q_values : \A act \in Actions :
                 (k # s \/ act # a) => q_values[k][act] = ValueIn(q0, k, act)

\* an update of an unseen state whose next state already has a positive value
C7_Witness ==
    /\ upd.calls > 0
    /\ upd.state_key \notin DOMAIN upd.q_before
    /\ upd.next_state_key \in DOMAIN upd.q_before
    /\ upd.q_before[upd.next_state_key].wait > upd.q_before[upd.next_state_key].order
    /\ upd.q_before[upd.next_state_key].wait > 0

Margin == 10 * MoneyUnit

\* C8: in the simulation loop the day's order/wait decision differs from the
\* classical trigger (stock <= reorder_point, no delivery pending) only if
\* the day's state key is in the table, the draw selects the table and one
\* action's value exceeds the other's by more than 10.0.
C8_LoopMarginRule ==
    (DayDone /\ (last.action = "order") # last.should_order_eoq) =>
        /\ last.has_entry
        /\ last.draw
        /\ \/ last.q_order > last.q_wait + Margin
           \/ last.q_wait > last.q_order + Margin

\* C9: in calculate_optimal_order_quantity should_order follows the
\* higher-valued action when the state key is in the table, the draw selects
\* the table and one value exceeds the other by more than 10.0; in every
\* other case should_order is the classical trigger current_stock <=
\* reorder_point.
C9_BlendMarginRule ==
    (rec.calls > 0 /\ rec.res.kind = "ok") =>
        LET r == rec.res
            consult == r.state_key \in DOMAIN q_values /\ rec.draw
            q_order == ValueIn(q_values, r.state_key, "order")
            q_wait == ValueIn(q_values, r.state_key, "wait")
        IN  IF consult /\ q_order > q_wait + Margin THEN r.should_order
            ELSE IF consult /\ q_wait > q_order + Margin THEN ~r.should_order
            ELSE r.should_order = (r.current_stock <= r.reorder_point)

\* the table overrides the classical trigger: stock above the reorder point, yet order
C9_Witness ==
    /\ rec.calls > 0 /\ rec.res.kind = "ok" /\ rec.draw
    /\ rec.res.state_key \in DOMAIN q_values
    /\ q_values[rec.res.state_key].order > q_values[rec.res.state_key].wait + Margin
    /\ rec.res.current_stock > rec.res.reorder_point
    /\ rec.res.should_order

\* C10: whenever the loop places an order, the quantity put into
\* pending_delivery and recorded in the DayRecord is
\* max(0, EOQ - stock + reorder_point) for the simulated stock of that day.
C10_LoopOrderQuantity ==
    (DayDone /\ last.action = "order") =>
        LET q == last.eoq - last.stock_at_decision + last.reorder_point
            quantity == IF q >= 0 THEN q ELSE 0
        IN  /\ sim.pending_delivery = quantity
            /\ LastRecord.ordered = quantity

----------------------------------------------------------------------------
(* Properties of the delivery pipeline, the run and the table              *)

\* the stock at the start of the day the loop has just finished
StockAtDayStart ==
    IF sim.day = 1 THEN sim.current_stock ELSE sim.daily_results[sim.day - 1].stock

\* the days of this run whose order is due on the day just finished
OrdersDueToday ==
    { d \in 1..(sim.day - 1) :
        sim.daily_results[d].action = "order" /\ d + sim.lead_time = sim.day }

\* C11: with a lead time L >= 1, an order placed on day d is added to stock
\* exactly once, at the start of day d + L and before that day's decision
\* and sales; pending_delivery and days_to_delivery are then 0 at the
\* decision; a day on which no order is due receives nothing.
C11_DeliveredOnceAfterLeadTime ==
    (DayDone /\ sim.lead_time >= 1) =>
        LET received == LastRecord.stock + LastRecord.sold - StockAtDayStart
        IN  /\ Cardinality(OrdersDueToday) <= 1
            /\ last.stock_at_decision = StockAtDayStart + received
            /\ OrdersDueToday = {} => received = 0
            /\ \A d \in OrdersDueToday :
                  /\ received = sim.daily_results[d].ordered
                  /\ last.pending_at_decision = 0
                  /\ last.dtd_at_decision = 0

\* the third day of a run with lead time 2 receives the units ordered on day 1
C11_Witness ==
    /\ DayDone /\ sim.lead_time = 2 /\ sim.day = 3
    /\ OrdersDueToday = {1}
    /\ sim.daily_results[1].ordered > 0
    /\ sim.daily_results[2].stock + sim.daily_results[1].ordered = last.stock_at_decision

\* C12: two runs over the same upstream rows, the same days, the same demand
\* sequence and the same random draws, each on an optimizer whose table
\* starts empty, produce the same DayRecords, day by day and in the result.
C12_SameInputsSameRecords ==
    /\ (replay.phase = "second" /\ pc = "loop") =>
          \A i \in 1..sim.day : sim.daily_results[i] = replay.first.daily_results[i]
    /\ replay.phase = "done" => result = replay.first

\* a second run of three days has returned; its first run learned table
\* entries, ordered on one day and lost sales on another
C12_Witness ==
    /\ replay.phase = "done"
    /\ Len(result.daily_results) = 3
    /\ \E i \in 1..3 : result.daily_results[i].action = "order"
    /\ \E i \in 1..3 : result.daily_results[i].action = "wait"
    /\ result.stockout_days > 0
    /\ \E i \in 1..3 : replay.inputs[i][1]

\* a sequence of DayRecords numbered 1, 2, ... in order
NumberedInOrder(records) == \A i \in 1..Len(records) : records[i].day = i

\* C13: a run over a horizon of n >= 0 days with upstream data present ends
\* after exactly n day-steps: each step of the loop appends one DayRecord and
\* leaves the earlier ones as they are, the records are numbered 1..n in
\* order, the loop is left by a normal return only after day n, after day n
\* the only step left is the return, and the returned daily_results are those
\* n records.  (The number of days still to run decreases by one with every
\* step in the loop, so no run stays in the loop.)
C13_RunsExactlyTheHorizon ==
    /\ [](pc = "loop" =>
            /\ sim.days = runs.asked
            /\ sim.day <= sim.days
            /\ Len(sim.daily_results) = sim.day
            /\ NumberedInOrder(sim.daily_results))
    /\ []((Returned /\ result.kind = "ok") =>
            /\ Len(result.daily_results) = runs.asked
            /\ NumberedInOrder(result.daily_results))
    /\ [][(pc = "loop" /\ pc' = "loop") =>
            /\ sim'.day = sim.day + 1
            /\ SubSeq(sim'.daily_results, 1, sim.day) = sim.daily_results]_vars
    /\ [][(pc = "loop" /\ pc' = "idle" /\ ~runs'.faulted) =>
            /\ sim.day = sim.days
            /\ result'.kind = "ok"
            /\ result'.daily_results = sim.daily_results]_vars
    /\ [][(pc = "loop" /\ sim.day = sim.days) => pc' = "idle"]_vars

\* a run asked for three days has returned three DayRecords
C13_Witness ==
    /\ Returned /\ result.kind = "ok" /\ ~runs.faulted
    /\ runs.asked = 3
    /\ Len(result.daily_results) = 3

\* C14: no call of calculate_optimal_order_quantity, simulate_policy or
\* update_policy changes the upstream rows (catalog, inventory, sales,
\* suppliers); the stock a simulation ends with is not written back.
C14_UpstreamReadOnly == [][upstream' = upstream]_vars

\* a simulation has returned with a final stock other than the inventory row's
C14_Witness ==
    /\ Returned /\ result.kind = "ok"
    /\ upstream.hasStock /\ result.final_stock # upstream.stock
    /\ Len(result.daily_results) >= 2

\* C15: a calculate_optimal_order_quantity call leaves the table as it is,
\* whether it returns a recommendation or a sentinel; the table changes only
\* by update_policy, called on a simulated day with that day's state key,
\* action, profit and next state key, or directly by the caller.
C15_RecommendationLeavesTable ==
    /\ [][(rec' # rec /\ rec'.calls = 1) => q_values' = q_values]_vars
    /\ [][(q_values' # q_values) =>
            \/ /\ pc = "loop" /\ pc' = "loop" /\ last'.day = sim.day + 1
               /\ q_values' = update_policy(q_values, last'.state_key, last'.action,
                                            last'.reward, last'.next_state_key)
            \/ /\ pc = "idle" /\ upd'.calls = upd.calls + 1
               /\ q_values' = update_policy(q_values, upd'.state_key, upd'.action,
                                            upd'.reward, upd'.next_state_key)]_vars

\* a recommendation was computed from a table that holds an entry for its
\* state key and entries learned by a simulation
C15_Witness ==
    /\ rec.calls = 1 /\ rec.res.kind = "ok" /\ rec.has_entry /\ rec.draw
    /\ runs.started > 0
    /\ Cardinality(DOMAIN q_values) >= 3

\* C16: over any sequence of update_policy, recommendation and simulation
\* calls on one optimizer no key leaves the table; the start and the return
\* of a run leave the table as it is; a value changes only as the (state key,
\* action) pair of an update_policy call, so what one run has learned is what
\* the next run reads.
C16_TableOnlyGrows ==
    [][/\ DOMAIN q_values \subseteq DOMAIN q_values'
       /\ (runs'.started # runs.started) => q_values' = q_values
       /\ (pc = "loop" /\ pc' = "idle") => q_values' = q_values
       /\ \A k \in DOMAIN q_values \cap DOMAIN q_values' : \A a \in Actions :
            \/ q_values'[k][a] = q_values[k][a]
            \/ pc = "loop" /\ pc' = "loop" /\ k = last'.state_key /\ a = last'.action
            \/ /\ pc = "idle" /\ upd'.calls = upd.calls + 1
               /\ k = upd'.state_key /\ a = upd'.action]_vars

\* the first day of a second run decides from an entry the first run learned
C16_Witness ==
    /\ DayDone /\ runs.started = 2 /\ sim.day = 1
    /\ upd.calls = 0
    /\ last.has_entry /\ last.draw
    /\ last.q_order # last.q_wait

\* C17: after update_policy(s, a, r, s') both s and s' are keys of the table;
\* a key the call met for the first time holds 0 for every action the call
\* did not update, and the value written for a first-met s is computed from
\* a current value of 0 (and from 0 for a first-met s'); every entry of the
\* table holds exactly the actions "order" and "wait".
C17_BothKeysInserted ==
    /\ \A k \in DOMAIN q_values : DOMAIN q_values[k] = {"order", "wait"}
    /\ upd.calls > 0 =>
         LET q0 == upd.q_before
             s == upd.state_key
             a == upd.action
             n == upd.next_state_key
             nxt == IF n \in DOMAIN q0 THEN Max(q0[n].order, q0[n].wait) ELSE 0
             fromZero == 1000 * q_values[s][a] - (100 * upd.reward + 90 * nxt)
         IN  /\ s \in DOMAIN q_values
             /\ n \in DOMAIN q_values
             /\ \A k \in DOMAIN q_values \ DOMAIN q0 : \A act \in Actions :
                  (k # s \/ act # a) => q_values[k][act] = 0
             /\ s \notin DOMAIN q0 => (-2000 <= fromZero /\ fromZero <= 2000)

\* a call whose s and s' were two keys new to the table
C17_Witness ==
    /\ upd.calls > 0
    /\ upd.state_key # upd.next_state_key
    /\ upd.state_key \notin DOMAIN upd.q_before
    /\ upd.next_state_key \notin DOMAIN upd.q_before
    /\ q_values[upd.state_key][upd.action] # 0
    /\ q_values[upd.next_state_key] = ZeroEntry

\* lines 67-71: the stock level of the pair as the optimizer reads it from the
\* inventory table, 0 when the pair has no row
StockLevel(up) == IF up.hasStock THEN up.stock ELSE 0

\* the position a run has before its first day carries nothing of an earlier run
PositionReset ==
    /\ sim.pending_delivery = 0
    /\ sim.days_to_delivery = 0
    /\ sim.daily_results = << >>
    /\ sim.total_profit = 0 /\ sim.stockout_days = 0

\* C18: every simulate_policy call starts from a fresh position: stock is the
\* upstream stock level of the pair, pending_delivery = 0 and
\* days_to_delivery = 0, whatever an earlier run left behind.
C18_FreshPosition ==
    (pc = "loop" /\ sim.day = 0) =>
        /\ PositionReset
        /\ sim.stock = StockLevel(upstream)
        /\ sim.current_stock = StockLevel(upstream)

\* C19: with the learning rate 0, update_policy calls, one or several, with
\* any state keys, action and reward leave every action value as it was: the
\* keys the table held keep their values and the keys the calls insert hold 0.
C19_ZeroRateChangesNothing ==
    /\ \A k \in DOMAIN upd.q_start : \A a \in Actions :
         k \in DOMAIN q_values /\ q_values[k][a] = upd.q_start[k][a]
    /\ \A k \in DOMAIN q_values \ DOMAIN upd.q_start : q_values[k] = ZeroEntry

\* two calls with a reward other than 0 on an entry that held learned values
C19_Witness ==
    /\ upd.calls = 2
    /\ upd.reward # 0
    /\ upd.state_key \in DOMAIN upd.q_start
    /\ upd.q_start[upd.state_key][upd.action] # 0
    /\ upd.q_start[upd.state_key][upd.action] # upd.reward
    /\ MaxNextQ(q_values[upd.next_state_key]) # 0

\* C20: when the stock is at or below the reorder point, no delivery is
\* pending and the table has no entry for the state key, the decision is to
\* order, whatever the exploration draw: the calculator returns should_order
\* = TRUE, and the simulated day decides to order and places the order.
C20_ReorderPointDecidesWithoutEntry ==
    /\ (/\ rec.calls = 1 /\ rec.res.kind = "ok" /\ ~rec.has_entry
        /\ rec.res.current_stock <= rec.res.reorder_point)
          => rec.res.should_order
    /\ (/\ last.day > 0 /\ ~last.has_entry
        /\ last.dtd_at_decision = 0
        /\ last.stock_at_decision <= last.reorder_point)
          => (last.should_order /\ last.action = "order")

\* after a one-key run whose day ordered from the reorder point alone, the
\* calculator recommends an order for a key the table does not hold; both
\* draws were above the exploration rate
C20_Witness ==
    /\ rec.calls = 1 /\ rec.res.kind = "ok" /\ ~rec.has_entry /\ rec.draw
    /\ rec.res.current_stock <= rec.res.reorder_point
    /\ rec.res.should_order
    /\ last.day > 0 /\ ~last.has_entry /\ last.draw
    /\ last.calc_kind = "ok"
    /\ last.dtd_at_decision = 0
    /\ last.stock_at_decision <= last.reorder_point
    /\ last.action = "order"

----------------------------------------------------------------------------
(* Properties of the day's bookkeeping, the state keys and the calculator  *)

\* C21: in a run of n days update_policy is invoked once on each day, after
\* the day's profit is known, with the state key, the action and the profit
\* its DayRecord reports and the day's next state key; the start and the
\* return of the run invoke it not at all, so a run of n days makes n calls.
C21_OneUpdatePerDay ==
    /\ [][(pc = "loop" /\ pc' = "loop") =>
            LET r == sim'.daily_results[sim'.day]
            IN  /\ last'.reward = r.profit
                /\ last'.state_key = r.state
                /\ last'.action = r.action
                /\ q_values' = update_policy(q_values, r.state, r.action, r.profit,
                                             last'.next_state_key)]_vars
    /\ [][~(pc = "loop" /\ pc' = "loop") => q_values' = q_values]_vars

\* the third day of a run has been learned from; the run had a day that
\* ordered and a day that waited, each leaving a value in the table
C21_Witness ==
    /\ DayDone /\ sim.day = 3 /\ sim.days = 3
    /\ \E i \in 1..3 : /\ sim.daily_results[i].action = "order"
                       /\ q_values[sim.daily_results[i].state].order # 0
    /\ \E i \in 1..3 : /\ sim.daily_results[i].action = "wait"
                       /\ q_values[sim.daily_results[i].state].wait # 0

\* the days of a sequence of DayRecords on which demand was missed
MissedDays(records) == { i \in 1..Len(records) : records[i].missed > 0 }

\* C22: a simulated day is counted in stockout_days exactly when its missed
\* quantity is > 0: during the run and in the returned result stockout_days
\* is the number of DayRecords with missed > 0, and for a horizon > 0 the
\* returned service_level is 1 - stockout_days / horizon.
C22_StockoutDaysCounted ==
    /\ pc = "loop" => sim.stockout_days = Cardinality(MissedDays(sim.daily_results))
    /\ (Returned /\ result.kind = "ok") =>
         /\ result.stockout_days = Cardinality(MissedDays(result.daily_results))
         /\ runs.asked > 0 =>
              result.service_level[1] * runs.asked
                = (runs.asked - result.stockout_days) * result.service_level[2]

\* a run of three days has returned with a day that missed demand and a day
\* that did not
C22_Witness ==
    /\ Returned /\ result.kind = "ok" /\ runs.asked = 3
    /\ result.stockout_days >= 1
    /\ result.stockout_days < 3
    /\ result.service_level = <<3 - result.stockout_days, 3>>

\* the days of a sequence of DayRecords on which an order was placed
OrderDays(records) == { i \in 1..Len(records) : records[i].action = "order" }

\* the profit of the day just finished before any ordering cost, from its DayRecord
ProfitBeforeOrdering ==
    LET r == LastRecord
    IN  r.sold * sim.price * MoneyUnit - r.sold * sim.cost * MoneyUnit
          - (r.stock * sim.cost * 2 * MoneyUnit) \div 36500
          - (r.missed * sim.price * 10 * MoneyUnit) \div 100

\* C23: the fixed ordering cost (15) is charged exactly on the days an order
\* is placed: an "order" day's profit is its profit before ordering less 15
\* and the running ordering-cost total grows by 15; a "wait" day changes
\* neither; the returned ordering_cost is 15 times the number of DayRecords
\* with action "order".
C23_OrderingCostOnOrderDays ==
    /\ DayDone =>
         /\ LastRecord.profit =
              ProfitBeforeOrdering
                - (IF LastRecord.action = "order" THEN 15 * MoneyUnit ELSE 0)
         /\ sim.ordering_cost_total
              = 15 * MoneyUnit * Cardinality(OrderDays(sim.daily_results))
    /\ (Returned /\ result.kind = "ok") =>
         result.ordering_cost = 15 * MoneyUnit * Cardinality(OrderDays(result.daily_results))

\* a run has returned with two days that ordered and one that waited
C23_Witness ==
    /\ Returned /\ result.kind = "ok"
    /\ Cardinality(OrderDays(result.daily_results)) = 2
    /\ Len(result.daily_results) = 3
    /\ result.ordering_cost = 30 * MoneyUnit

\* the state key the calculator computes (lines 99-113) for a stock level and
\* the demand sample and prices of the upstream rows
CalculatorKey(stock, up) ==
    LET w == RecentSales(up)
    IN  state_to_key(stock, CalcDemandLevel(w, AvgDemand(w)), CalcPriceRatio(up.price, up.cost))

\* C24: the loop and the calculator classify alike: when both see the same
\* demand sample (every sale of the pair lies within the 30-day window), the
\* state key a simulated day writes into the table is the key the calculator
\* computes for the day's stock, its demand level being high for std/mean >
\* 0.5, low for std/mean < 0.2 and medium otherwise.
C24_SameClassification ==
    (DayDone /\ upstream.recent > 0 /\ upstream.recent = Len(upstream.sales)) =>
        last.state_key = CalculatorKey(last.stock_at_decision, upstream)

\* the stock bucket of the key, by its bounds
StockBucket(stock) ==
    IF stock < 5 THEN "very_low"
    ELSE IF stock \in 5..19 THEN "low"
    ELSE IF stock \in 20..49 THEN "medium_low"
    ELSE IF stock \in 50..99 THEN "medium"
    ELSE IF stock \in 100..199 THEN "medium_high"
    ELSE "high"

\* C25: state_to_key is a total function of (stock, demand_level,
\* price_ratio): the key names the stock bucket (very_low below 5, low for
\* 5..19, medium_low for 20..49, medium for 50..99, medium_high for 100..199,
\* high from 200), followed by the demand level and the price ratio; two
\* calls give the same string exactly when their stocks lie in the same
\* bucket and their levels and ratios are the same.
C25_KeyFunction ==
    probe.calls = 2 =>
        /\ probe.ka = StockBucket(probe.a.stock) \o "_" \o probe.a.demand_level
                        \o "_" \o probe.a.price_ratio
        /\ (probe.ka = probe.kb) <=>
             /\ StockBucket(probe.a.stock) = StockBucket(probe.b.stock)
             /\ probe.a.demand_level = probe.b.demand_level
             /\ probe.a.price_ratio = probe.b.price_ratio

\* stocks 49 and 50 with demand levels "low" and "high": the keys
\* medium_low_high_low and medium_low_high, which are different strings
C25_Witness ==
    /\ probe.calls = 2
    /\ probe.a.stock = 49 /\ probe.a.demand_level = "high" /\ probe.a.price_ratio = "low"
    /\ probe.b.stock = 50 /\ probe.b.demand_level = "low" /\ probe.b.price_ratio = "high"
    /\ probe.ka # probe.kb

\* C26: every recommendation that is not the sentinel has safety_stock >= 0
\* and reorder_point >= safety_stock
C26_ReorderPointCoversSafetyStock ==
    (rec.calls = 1 /\ rec.res.kind = "ok" /\ rec.res.lead_time >= 0) =>
        /\ rec.res.safety_stock >= 0
        /\ rec.res.reorder_point >= rec.res.safety_stock

\* a recommendation with a positive safety stock above the lead-time demand
C26_Witness ==
    /\ rec.calls = 1
    /\ rec.res.kind = "ok"
    /\ rec.res.safety_stock > RoundDiv(rec.res.avg_num * rec.res.lead_time, rec.res.avg_den)
    /\ rec.res.reorder_point > rec.res.safety_stock

\* the recommendation for thirty days of ten units, cost 5, price 12, lead time 7
FlatMonthRecommended ==
    /\ upstream.sales = FlatMonth /\ upstream.recent = 30
    /\ upstream.price = 12 /\ upstream.cost = 5
    /\ upstream.hasLead /\ upstream.lead = 7
    /\ rec.calls = 1 /\ rec.res.kind = "ok"

\* annual_demand = 3650 and holding_cost = 0.10 on the way to the result
FlatMonthIntermediates ==
    LET annual_demand == AnnualDemand(<<rec.res.avg_num, rec.res.avg_den>>)
        holding_cost == HoldingCost(upstream.cost)
    IN  /\ annual_demand[1] = 3650 * annual_demand[2]
        /\ 100 * holding_cost[1] = 10 * holding_cost[2]

\* C27 as stated: the scenario's economic order quantity is 1044
C27_FlatMonthEOQ1044 ==
    FlatMonthRecommended =>
        /\ FlatMonthIntermediates
        /\ rec.res.economic_order_quantity = 1044
        /\ rec.res.safety_stock = 0
        /\ rec.res.reorder_point = 70

\* C27: for thirty days of ten units, cost 5, price 12 and lead time 7 the
\* calculator works with annual_demand 3650 and holding_cost 0.10 and returns
\* EOQ = round(sqrt(2 * 3650 * 15 / 0.10)) = 1046, safety_stock 0, reorder_point 70
C27_FlatMonthScenario ==
    FlatMonthRecommended =>
        /\ FlatMonthIntermediates
        /\ rec.res.economic_order_quantity = 1046
        /\ rec.res.safety_stock = 0
        /\ rec.res.reorder_point = 70

\* the scenario's recommendation, made with nothing in stock
C27_Witness ==
    /\ FlatMonthRecommended
    /\ rec.res.current_stock = 0
    /\ rec.res.order_quantity = 1046 + 70

\* C28: the next-state key a day passes to the policy update is the key of
\* the stock left after the day's sales, the demand level of the next day's
\* demand sample (the day's own on the last day) and the day's price ratio;
\* the day's own key has the same price ratio.
C28_NextStateKey ==
    DayDone =>
        LET r == LastRecord
            next_demand == sim.daily_demand[Min(sim.day + 1, sim.days)]
            price_ratio == SimPriceRatio(sim.price, sim.cost)
        IN  /\ last.next_state_key =
                 state_to_key(r.stock,
                              SimDemandLevel(next_demand, sim.mean_num, sim.mean_den),
                              price_ratio)
            /\ last.state_key =
                 state_to_key(last.stock_at_decision,
                              SimDemandLevel(r.demand, sim.mean_num, sim.mean_den),
                              price_ratio)
            /\ last.next_state_key \in DOMAIN q_values

\* a day before the last whose sales moved the stock to another bucket and
\* whose successor has another demand level
C28_Witness ==
    /\ DayDone /\ sim.day < sim.days
    /\ state_to_key(LastRecord.stock, "low", "high")
         # state_to_key(last.stock_at_decision, "low", "high")
    /\ SimDemandLevel(sim.daily_demand[sim.day + 1], sim.mean_num, sim.mean_den)
         # SimDemandLevel(LastRecord.demand, sim.mean_num, sim.mean_den)
    /\ last.next_state_key # last.state_key

\* C29: a simulated day takes the next unconsumed sample of the demand
\* history, in the history's order, as its demand; only a day for which no
\* sample remains has a synthesized demand, an integer >= 1.
C29_HistoryConsumedFirst ==
    DayDone =>
        LET h == DemandHistory(upstream)
            demand == LastRecord.demand
        IN  /\ sim.day <= Len(h) => demand = h[sim.day]
            /\ sim.day > Len(h) => demand \in Nat \ {0}

\* a sample with items, all of them equal
ZeroVariance(w) == w # << >> /\ VarTimesN2(w) = 0

\* C30: for a demand sample with items and zero variance, the std_demand
\* behind the safety stock and the reorder point is max(1.0, mean_demand * 0.3),
\* in the recommendation and in the simulation.
C30_ZeroVarianceClamped ==
    /\ (rec.calls = 1 /\ rec.res.kind = "ok" /\ ZeroVariance(RecentSales(upstream))) =>
          LET avg == <<rec.res.avg_num, rec.res.avg_den>>
              safety_stock == SafetyStockOf(FallbackStdSq(avg), rec.res.lead_time)
          IN  /\ rec.res.safety_stock = safety_stock
              /\ rec.res.reorder_point = ReorderPoint(avg, rec.res.lead_time, safety_stock)
    /\ (pc = "loop" /\ ZeroVariance(DemandHistory(upstream))) =>
          LET clamped == FallbackStdSq(<<sim.mean_num, sim.mean_den>>)
          IN  sim.std_num * clamped[2] = clamped[1] * sim.std_den

----------------------------------------------------------------------------
(* Properties of the fallbacks, the stock ledger and the failure paths      *)

\* C31 as stated: with an empty demand sample the statistics are mean 10 and
\* std 3 and the computation proceeds with them, in the simulation and in the
\* recommendation.
C31_EmptySampleProceeds ==
    (DayDone /\ DemandHistory(upstream) = << >>) =>
        /\ sim.mean_num = 10 * sim.mean_den
        /\ sim.std_num = 9 * sim.std_den
        /\ \A cdraw \in BOOLEAN :
             calculate_optimal_order_quantity(upstream, q_values, cdraw, FALSE).kind = "ok"

\* C31: a simulation of a pair without sales rows runs its days on
\* mean_demand = 10 and std_demand = 3; the recommendation for the same pair
\* is the sentinel "Insufficient sales history", computed from no statistics.
C31_EmptyHistoryDefaults ==
    (DayDone /\ DemandHistory(upstream) = << >>) =>
        /\ sim.mean_num = 10 * sim.mean_den
        /\ sim.std_num = 9 * sim.std_den
        /\ last.calc_kind = "sentinel"
        /\ \A cdraw \in BOOLEAN :
             calculate_optimal_order_quantity(upstream, q_values, cdraw, FALSE)
               = Sentinel("Insufficient sales history")

\* the last day of a run without sales rows, its demand classified against
\* the default mean
C31_Witness ==
    /\ DayDone /\ sim.day = sim.days
    /\ DemandHistory(upstream) = << >>
    /\ LastRecord.demand = 12
    /\ last.state_key = state_to_key(last.stock_at_decision, "medium", "high")

\* the classical calculation made once, when the run starts on an optimizer
\* whose table is empty, with every query answered
OnceAtStart(cdraw) == calculate_optimal_order_quantity(upstream, EmptyTable, cdraw, FALSE)

\* the draws of the day that has just been simulated, <<draw, cfault>>
DrawsOfDay == replay'.inputs[sim'.day]

\* C32: with the EOQ and the reorder point computed once at the start of the
\* run, every day whose own calculator call has its queries answered gives
\* the same locals, DayRecord and table as the day with its own call, for the
\* same demand and the same exploration draw of the loop; the day's call
\* returns the reorder point and the EOQ of the start.
C32_RecomputationRedundant ==
    [][(replay.phase \in {"first", "second"} /\ pc = "loop" /\ sim'.day = sim.day + 1
          /\ ~DrawsOfDay[2]) =>
         \A cdraw \in BOOLEAN :
            LET step == DayStepWith(q_values, sim, DrawsOfDay[1], OnceAtStart(cdraw))
            IN  /\ sim' = step.sim
                /\ q_values' = step.q
                /\ last'.reorder_point = GetReorderPoint(OnceAtStart(cdraw))
                /\ last'.eoq = GetEOQ(OnceAtStart(cdraw))]_vars

\* the third day of a run that ordered and was delivered, with a table that
\* has learned entries and the loop following it
C32_Witness ==
    /\ replay.phase = "first" /\ pc = "loop" /\ sim.day = 3
    /\ \A i \in 1..3 : ~replay.inputs[i][2]
    /\ last.calc_kind = "ok"
    /\ last.has_entry /\ last.draw
    /\ \E i \in 1..3 : sim.daily_results[i].action = "order"
    /\ q_values # EmptyTable

\* C33: throughout a run that starts with stock >= 0, demand >= 0 and
\* lead_time >= 0, stock >= 0, pending_delivery >= 0 and
\* 0 <= days_to_delivery <= lead_time.
C33_LedgerInRange ==
    (/\ pc = "loop"
     /\ sim.current_stock >= 0 /\ sim.lead_time >= 0
     /\ \A i \in 1..sim.days : sim.daily_demand[i] >= 0) =>
        /\ sim.stock >= 0
        /\ sim.pending_delivery >= 0
        /\ 0 <= sim.days_to_delivery /\ sim.days_to_delivery <= sim.lead_time
        /\ last.day > 0 =>            \* and after the day's delivery step
              /\ last.stock_at_decision >= 0
              /\ last.pending_at_decision >= 0
              /\ 0 <= last.dtd_at_decision /\ last.dtd_at_decision <= sim.lead_time

\* a day that sold the shelf empty, lost demand and placed an order that is
\* the full lead time away
C33_Witness ==
    /\ DayDone
    /\ sim.stock = 0 /\ LastRecord.missed > 0 /\ LastRecord.sold > 0
    /\ sim.pending_delivery > 0
    /\ sim.days_to_delivery = sim.lead_time /\ sim.lead_time > 1

\* the quantities ordered and sold on the days simulated so far
OrderedSoFar == SumSeq([i \in 1..sim.day |-> sim.daily_results[i].ordered])
SoldSoFar == SumSeq([i \in 1..sim.day |-> sim.daily_results[i].sold])

\* C34: no ordered quantity is lost or overwritten, for any lead_time >= 0:
\* at the end of every day a pending delivery has days to go, and stock plus
\* pending delivery is the initial stock plus everything ordered minus
\* everything sold.
C34_NoOrderLost ==
    DayDone =>
        /\ sim.pending_delivery > 0 => sim.days_to_delivery > 0
        /\ sim.stock + sim.pending_delivery = sim.current_stock + OrderedSoFar - SoldSoFar

\* C35: a DayRecord with action "order" has an ordered quantity of at least
\* 1 and a DayRecord with action "wait" has ordered quantity 0, also on the
\* days whose classical calculation returns the sentinel.
C35_OrderHasQuantity ==
    pc = "loop" =>
        \A i \in 1..sim.day :
            LET r == sim.daily_results[i]
            IN  /\ r.action = "order" => r.ordered >= 1
                /\ r.action = "wait" => r.ordered = 0

\* C36: in every recommendation that is not the sentinel, should_order is
\* true exactly when order_quantity >= 1, also when the table overrides the
\* classical trigger at a stock level above EOQ + reorder point.
C36_OrderIffQuantity ==
    (rec.calls = 1 /\ rec.res.kind = "ok") =>
        (rec.res.should_order <=> rec.res.order_quantity >= 1)

InitialStock == IF upstream.hasStock THEN upstream.stock ELSE default_sim_stock

\* C38: a run with horizon 0, or with initial and final stock both 0, or with
\* unit cost 0, returns a result and no error.  With horizon 0 the result has
\* no DayRecords, service_level 0 and the initial stock as final_stock, and
\* the table is unchanged.  inventory_turnover is revenue / (cost * 1) when
\* initial + final stock is 0, and 0 when the cost is 0.
C38_EdgeCasesReturnResult ==
    (/\ Returned /\ ~runs.faulted
     /\ runs.asked = 0 \/ upstream.cost = 0 \/ InitialStock + result.final_stock = 0) =>
        /\ result.kind = "ok"
        /\ runs.asked = 0 =>
              /\ result.daily_results = << >>
              /\ result.service_level[1] = 0
              /\ result.final_stock = InitialStock
              /\ runs.days = 0 => q_values = EmptyTable
        /\ (upstream.cost > 0 /\ InitialStock + result.final_stock = 0) =>
              IF result.revenue = 0 THEN result.inventory_turnover[1] = 0
              ELSE result.inventory_turnover = <<result.revenue, MoneyUnit * upstream.cost>>
        /\ upstream.cost = 0 => result.inventory_turnover[1] = 0

\* a run that began and ended with an empty shelf and sold a delivery in
\* between
C38_Witness ==
    /\ Returned /\ ~runs.faulted /\ result.kind = "ok"
    /\ upstream.cost > 0
    /\ InitialStock = 0 /\ result.final_stock = 0
    /\ result.revenue > 0
    /\ result.inventory_turnover[1] > 0

\* a run of days at unit cost 0 has returned
C38_WitnessNoCost ==
    /\ Returned /\ ~runs.faulted /\ result.kind = "ok"
    /\ upstream.cost = 0
    /\ Len(result.daily_results) = 2
    /\ result.revenue > 0

\* a run with horizon 0 has returned after a run that simulated days
C38_WitnessNoDays ==
    /\ Returned /\ ~runs.faulted /\ result.kind = "ok"
    /\ runs.asked = 0 /\ runs.started = 2 /\ runs.days > 0
    /\ q_values # EmptyTable

----------------------------------------------------------------------------
(* Properties of the restock requests and of db_connection                  *)

\* the quantities of the completed requests, added up
CompletedQuantity ==
    SumSeq([i \in 1..Len(restock.requests) |->
              IF restock.requests[i].status = "completed"
              THEN restock.requests[i].quantity ELSE 0])

\* C39: under any interleaving of handle_restock_requests calls and
\* request_restock inserts, each request is completed at most once: its
\* quantity is added to the inventory once, and the inventory increase is the
\* sum of the quantities of the completed requests.
C39_CompletedAtMostOnce ==
    /\ \A i \in 1..Len(restock.requests) :
          /\ restock.requests[i].applied <= 1
          /\ restock.requests[i].applied = 1 <=> restock.requests[i].status = "completed"
    /\ restock.stock_level = restock.stock_before + CompletedQuantity

\* the call is over: the with-statement returned or raised
ConnDone == dbconn.pc = "done"

\* at most 5 attempts in total
AttemptsBounded == dbconn.attempt <= retries

\* every connection opened by the call has been closed by it, once
EveryConnectionClosed == ConnDone => dbconn.closed = dbconn.opened

\* the caller gets a connection, or the error it or SQLite raised
NoForeignException == ConnDone => dbconn.outcome # "RuntimeError"

\* a lock error of the with-body on attempts 1 to 4 makes the body run again
BodyLockRetried ==
    (ConnDone /\ dbconn.body_locked_at \in 1..(retries - 1)) => dbconn.bodies >= 2

\* C40: db_connection makes at most 5 attempts and closes every connection it
\* opened exactly once; a lock error on attempts 1 to 4, raised while
\* connecting or inside the with-body, leads to a retry, and the caller gets a
\* usable connection or the OperationalError re-raised after the last
\* attempt, never a different exception.
C40_RetryContract ==
    /\ AttemptsBounded
    /\ EveryConnectionClosed
    /\ NoForeignException
    /\ BodyLockRetried
    /\ (ConnDone /\ dbconn.outcome = "locked") => dbconn.attempt = retries


============================================================================
